---- MODULE Spec2Model ----
(***************************************************************************)
(* Risk-rating pipeline of example_of_type_of_script_contractor_would_edit *)
(* (fetch -> pivot -> derive -> validate -> score -> prepare -> write      *)
(* historical -> write current snapshot), as a state machine over tables.  *)
(*                                                                         *)
(* Numbers are exact rationals [num, den]; den = 0 encodes the float       *)
(* specials: 0/0 is NaN (pandas' null), 1/0 and -1/0 are the infinities.   *)
(* Names (metric names, column keys, rule names) are sequences of tokens:  *)
(* a token is a maximal run of letters/digits or one separator character   *)
(* (" " or "_"), so that lower(), replace(' ', '_'), strip('_'),           *)
(* startswith() and endswith() act on them as they act on the strings.     *)
(***************************************************************************)
EXTENDS Integers, Sequences, FiniteSets, TLC

VARIABLES
    run,          \* number of the current call of process_risk_ratings
    pc,           \* position of the current run in process_risk_ratings
    source,       \* rows of the source table (external collaborator)
    df,           \* fetch_financial_data's result
    pivoted_df,   \* pivot_financial_data's result
    derived_df,   \* calculate_derived_metrics' result
    risk_df,      \* calculate_risk_ratings' result
    output_df,    \* prepare_output_data's result
    historical,   \* sink table risk_rating_all_time_historical
    current,      \* sink table risk_rating_current
    error,        \* the exception the run ended in (kind "none" while none)
    log,          \* logger.error / logger.warning records of the current run
    outcome,      \* outcome[r]: how run r ended
    response,     \* what POST /process answered for the current run
    health,       \* what GET /health answered last
    query_job,    \* the query job of fetch_financial_data and its two threads
    registries,   \* the keys of DERIVED_METRICS and RISK_FLAG_DEFINITIONS
    world,        \* GCP project, GitHub repository, local files, manifest file
    script,       \* the call of the setup or cleanup script under way
    environments, \* ContractorManifest.environments of the cleanup under way
    commands      \* the commands the script under way has run

\* The state of the setup and cleanup scripts
scriptVars == <<world, script, environments, commands>>

vars == <<run, pc, source, df, pivoted_df, derived_df, risk_df, output_df,
          historical, current, error, log, outcome, response, health,
          query_job, registries, scriptVars>>

----------------------------------------------------------------------------
(* Numbers *)

Abs(n) == IF n < 0 THEN -n ELSE n

Sign(n) == IF n < 0 THEN -1 ELSE IF n > 0 THEN 1 ELSE 0

RECURSIVE GCD(_, _)
GCD(a, b) == IF b = 0 THEN a ELSE GCD(b, a % b)

\* The float with value n/d, in lowest terms with a positive denominator.
Rat(n, d) ==
    IF d = 0 THEN [num |-> Sign(n), den |-> 0]
    ELSE LET g == GCD(Abs(n), Abs(d))
         IN  [num |-> (Sign(d) * n) \div g, den |-> Abs(d) \div g]

Num(n) == [num |-> n, den |-> 1]

NaN == [num |-> 0, den |-> 0]

IsNull(v) == v = NaN

IsInf(v) == v.den = 0 /\ v.num # 0

Neg(a) == [num |-> -a.num, den |-> a.den]

Mul(a, b) == Rat(a.num * b.num, a.den * b.den)

Div(a, b) == Rat(a.num * b.den, a.den * b.num)

Add(a, b) ==
    IF IsNull(a) \/ IsNull(b) THEN NaN
    ELSE IF IsInf(a) /\ IsInf(b) THEN (IF a = b THEN a ELSE NaN)
    ELSE IF IsInf(a) THEN a
    ELSE IF IsInf(b) THEN b
    ELSE Rat(a.num * b.den + b.num * a.den, a.den * b.den)

Sub(a, b) == Add(a, Neg(b))

\* Float comparison: every comparison with NaN is false.
Lt(a, b) ==
    /\ ~IsNull(a)
    /\ ~IsNull(b)
    /\ a # b
    /\ IF IsInf(a) THEN a.num < 0
       ELSE IF IsInf(b) THEN b.num > 0
       ELSE a.num * b.den < b.num * a.den

Gt(a, b) == Lt(b, a)

Ge(a, b) == ~IsNull(a) /\ ~IsNull(b) /\ ~Lt(a, b)

\* max over a set of floats, skipping NaN; NaN when nothing is left.
MaxSkipNull(S) ==
    LET T == {v \in S : ~IsNull(v)}
    IN  IF T = {} THEN NaN ELSE CHOOSE v \in T : \A w \in T : ~Lt(v, w)

----------------------------------------------------------------------------
(* Names *)

\* The name made of the given words joined by underscores.
U(words) ==
    [i \in 1..(2 * Len(words) - 1) |->
        IF i % 2 = 1 THEN words[(i + 1) \div 2] ELSE "_"]

\* str.lower() on one token: the spellings that occur in the modelled sources.
LowerTok(t) ==
    CASE t = "Cash" -> "cash"
      [] t = "CASH" -> "cash"
      [] t = "Revenue" -> "revenue"
      [] t = "Operating" -> "operating"
      [] t = "Income" -> "income"
      [] OTHER -> t

Lower(name) == [i \in 1..Len(name) |-> LowerTok(name[i])]

\* str.replace(' ', '_')
ReplaceSpaces(name) == [i \in 1..Len(name) |-> IF name[i] = " " THEN "_" ELSE name[i]]

\* str.strip('_')
RECURSIVE StripUnderscores(_)
StripUnderscores(name) ==
    IF name = <<>> THEN name
    ELSE IF Head(name) = "_" THEN StripUnderscores(Tail(name))
    ELSE IF name[Len(name)] = "_" THEN StripUnderscores(SubSeq(name, 1, Len(name) - 1))
    ELSE name

StartsWith(name, prefix) ==
    Len(name) >= Len(prefix) /\ SubSeq(name, 1, Len(prefix)) = prefix

EndsWith(name, suffix) ==
    Len(name) >= Len(suffix)
    /\ SubSeq(name, Len(name) - Len(suffix) + 1, Len(name)) = suffix

\* Whether sub occurs in name as a contiguous run (Python's `sub in name`).
Contains(name, sub) ==
    \E i \in 0..(Len(name) - Len(sub)) : SubSeq(name, i + 1, i + Len(sub)) = sub

----------------------------------------------------------------------------
(* Tables.  A table is [cols, key, rows]: cols is the set of its value     *)
(* columns, key[c] the name column c carries (df.columns), and each row is *)
(* [company_name, time_period, cells] with one float per column.  The two  *)
(* identity columns company_name and time_period are the rows' own fields. *)

EmptyTable == [cols |-> {}, key |-> [c \in {} |-> <<>>], rows |-> {}]

\* df.columns, the identity columns left out
Columns(t) == {t.key[c] : c \in t.cols}

\* the column of t that carries the name k
ColId(t, k) == CHOOSE c \in t.cols : t.key[c] = k

\* df[k] at one row
Cell(t, row, k) == row.cells[ColId(t, k)]

\* pd.concat([df, pd.DataFrame(new_columns, index=df.index)], axis=1), the new
\* columns named names and filled row by row with value(row, name)
AddColumns(t, names, value(_, _)) ==
    [cols |-> t.cols \cup names,
     key  |-> [c \in t.cols \cup names |-> IF c \in t.cols THEN t.key[c] ELSE c],
     rows |-> {[company_name |-> r.company_name,
                time_period  |-> r.time_period,
                cells |-> [c \in t.cols \cup names |->
                             IF c \in t.cols THEN r.cells[c] ELSE value(r, c)]]
               : r \in t.rows}]

\* df[names], names being a set of column names every one of which df carries
SelectColumns(t, names) ==
    LET ids == {c \in t.cols : t.key[c] \in names}
    IN  [cols |-> ids,
         key  |-> [c \in ids |-> t.key[c]],
         rows |-> {[company_name |-> r.company_name,
                    time_period  |-> r.time_period,
                    cells |-> [c \in ids |-> r.cells[c]]] : r \in t.rows}]

----------------------------------------------------------------------------
(* Registries *)

\* The value kinds, pivot_table's values=[...] argument
ValueKinds == <<U(<<"period", "value">>), U(<<"ttm", "avg">>), U(<<"pttm", "avg">>)>>

period_value(metric) == U(<<"period", "value">>) \o <<"_">> \o metric

ttm_avg(metric) == U(<<"ttm", "avg">>) \o <<"_">> \o metric

pttm_avg(metric) == U(<<"pttm", "avg">>) \o <<"_">> \o metric

revenue == <<"revenue">>
operating_income == U(<<"operating", "income">>)
costs_of_goods_sold == U(<<"costs", "of", "goods", "sold">>)
inventory == <<"inventory">>
cash == <<"cash">>
accounts_receivable == U(<<"accounts", "receivable">>)
accounts_payable == U(<<"accounts", "payable">>)
credit_cards == U(<<"credit", "cards">>)
ab_loan_balance == U(<<"ab", "loan", "balance">>)
cumulative_retained_earnings == U(<<"cumulative", "retained", "earnings">>)
contributed_capital == U(<<"contributed", "capital">>)

ttm_revenue == U(<<"ttm", "revenue">>)
ttm_operating_income == U(<<"ttm", "operating", "income">>)
ttm_costs_of_goods_sold == U(<<"ttm", "costs", "of", "goods", "sold">>)
pttm_revenue == U(<<"pttm", "revenue">>)
yoy_revenue_change == U(<<"yoy", "revenue", "change">>)
years_of_runway == U(<<"years", "of", "runway">>)
ab_line_of_credit_as_percent_of_ttm_revenue ==
    U(<<"ab", "line", "of", "credit", "as", "percent", "of", "ttm", "revenue">>)
inventory_turns_ttm == U(<<"inventory", "turns", "ttm">>)
modified_quick_ratio == U(<<"modified", "quick", "ratio">>)

\* DERIVED_METRICS in dictionary order; reads lists the df['...'] lookups of the
\* formula in the order Python evaluates them.
DERIVED_METRICS == <<
    [name |-> ttm_revenue, reads |-> <<ttm_avg(revenue)>>],
    [name |-> ttm_operating_income, reads |-> <<ttm_avg(operating_income)>>],
    [name |-> ttm_costs_of_goods_sold, reads |-> <<ttm_avg(costs_of_goods_sold)>>],
    [name |-> pttm_revenue, reads |-> <<pttm_avg(revenue)>>],
    [name |-> yoy_revenue_change, reads |-> <<ttm_avg(revenue), pttm_avg(revenue)>>],
    [name |-> years_of_runway,
     reads |-> <<period_value(cash), ttm_avg(operating_income)>>],
    [name |-> ab_line_of_credit_as_percent_of_ttm_revenue,
     reads |-> <<period_value(ab_loan_balance), ttm_avg(revenue)>>],
    [name |-> inventory_turns_ttm,
     reads |-> <<ttm_avg(costs_of_goods_sold), ttm_avg(inventory)>>],
    [name |-> modified_quick_ratio,
     reads |-> <<period_value(cash), period_value(accounts_receivable),
                 period_value(accounts_payable), period_value(credit_cards)>>] >>

\* The first alternative taken whatever the condition
WhereFirst(cond, a, b) == a

\* np.where(cond, a, b) at one row
Where(cond, a, b) == IF cond THEN a ELSE b

\* The lambda of DERIVED_METRICS[name]["formula"] at one row; get(k) is df[k] there.
Formula(name, get(_)) ==
    CASE name = ttm_revenue -> Mul(get(ttm_avg(revenue)), Num(12))
      [] name = ttm_operating_income -> Mul(get(ttm_avg(operating_income)), Num(12))
      [] name = ttm_costs_of_goods_sold -> Mul(get(ttm_avg(costs_of_goods_sold)), Num(12))
      [] name = pttm_revenue -> Mul(get(pttm_avg(revenue)), Num(12))
      [] name = yoy_revenue_change ->
            Sub(Div(get(ttm_avg(revenue)), get(pttm_avg(revenue))), Num(1))
      [] name = years_of_runway ->
            LET ratio == Div(get(period_value(cash)),
                             Mul(get(ttm_avg(operating_income)), Num(12)))
            IN  Where(Gt(ratio, Num(0)), Num(-1), Neg(ratio))
      [] name = ab_line_of_credit_as_percent_of_ttm_revenue ->
            Div(get(period_value(ab_loan_balance)), Mul(get(ttm_avg(revenue)), Num(12)))
      [] name = inventory_turns_ttm ->
            Div(Mul(get(ttm_avg(costs_of_goods_sold)), Num(12)), get(ttm_avg(inventory)))
      [] name = modified_quick_ratio ->
            LET liabilities == Add(get(period_value(accounts_payable)),
                                   get(period_value(credit_cards)))
            IN  Div(Add(get(period_value(cash)), get(period_value(accounts_receivable))),
                    Where(liabilities # Num(0), liabilities, NaN))

\* One entry of RISK_FLAG_DEFINITIONS: (metric_name, threshold, operator,
\* risk_points, [compare_to_other_metric]).  threshold_type is the Python type of
\* the threshold: "number", "str" (a column name) or "tuple" (lower, upper).
Rule(flag, metric_name, threshold_type, threshold, operator, optional) ==
    [flag |-> flag, metric_name |-> metric_name, threshold_type |-> threshold_type,
     threshold |-> threshold, operator |-> operator, risk_points |-> 1,
     optional |-> optional]

RISK_FLAG_DEFINITIONS == <<
    Rule(U(<<"negative", "operating", "income", "ttm", "flag">>),
         ttm_operating_income, "number", Num(0), "<", <<>>),
    Rule(U(<<"negative", "retained", "earnings", "flag">>),
         period_value(cumulative_retained_earnings), "number", Num(0), "<", <<>>),
    Rule(U(<<"modified", "quick", "ratio", "less", "one", "flag">>),
         modified_quick_ratio, "number", Num(1), "<", <<>>),
    Rule(U(<<"yoy", "revenue", "decline", "flag">>),
         yoy_revenue_change, "number", Num(0), "<", <<>>),
    Rule(U(<<"ab", "debt", "exceeds", "contributed", "capital", "flag">>),
         period_value(ab_loan_balance), "str", period_value(contributed_capital),
         ">", <<TRUE>>),
    Rule(U(<<"inventory", "turnover", "below", "2", "flag">>),
         inventory_turns_ttm, "number", Num(2), "<", <<>>),
    Rule(U(<<"ab", "loc", "25", "percent", "of", "revenue", "flag">>),
         ab_line_of_credit_as_percent_of_ttm_revenue, "number", Rat(1, 4), ">", <<>>),
    Rule(U(<<"revenue", "below", "10", "million", "flag">>),
         ttm_revenue, "number", Num(10000), "<", <<>>),
    Rule(U(<<"less", "than", "1", "year", "of", "runway", "flag">>),
         years_of_runway, "tuple", <<Num(0), Num(1)>>, "between", <<>>) >>

Rules == 1..Len(RISK_FLAG_DEFINITIONS)

\* list(RISK_FLAG_DEFINITIONS.keys()) as a set
RiskFlagNames == {RISK_FLAG_DEFINITIONS[i].flag : i \in Rules}

----------------------------------------------------------------------------
(* pivot_financial_data *)

\* One raw row of the source table (RawObservation).
Observation(c, p, m, pv, ta, pa) ==
    [company_name |-> c, time_period |-> p, metric_name |-> m,
     period_value |-> pv, ttm_avg |-> ta, pttm_avg |-> pa]

\* The value of kind k (an index of ValueKinds) in a raw row
KindValue(o, k) ==
    CASE k = 1 -> o.period_value
      [] k = 2 -> o.ttm_avg
      [] k = 3 -> o.pttm_avg

\* Last-write-wins: the value of the last raw row of the group
GroupLast(d, g, k) ==
    LET rows == {j \in DOMAIN d :
                    <<d[j].company_name, d[j].time_period, d[j].metric_name>> = g}
    IN  KindValue(d[CHOOSE j \in rows : \A h \in rows : h <= j], k)

\* The maximum were the zeros rewritten to null before the groups are collapsed
GroupMaxOfNonZero(d, g, k) ==
    MaxSkipNull({KindValue(d[i], k) : i \in {j \in DOMAIN d :
        <<d[j].company_name, d[j].time_period, d[j].metric_name>> = g}} \ {Num(0)})

\* aggfunc='max' over the raw rows of one (company, period, metric) group g,
\* for the value kind k
GroupMax(d, g, k) ==
    MaxSkipNull({KindValue(d[i], k) : i \in {j \in DOMAIN d :
        <<d[j].company_name, d[j].time_period, d[j].metric_name>> = g}})

\* grouped.agg('max'): every group's maximum of every value kind
Aggregated(d) ==
    [g \in {<<d[i].company_name, d[i].time_period, d[i].metric_name>> : i \in DOMAIN d}
        |-> [k \in DOMAIN ValueKinds |-> GroupMax(d, g, k)]]

\* The groups kept were it dropna(how="any")
PivotGroupsComplete(agged) ==
    {g \in DOMAIN agged : \A k \in DOMAIN ValueKinds : ~IsNull(agged[g][k])}

\* The groups pivot_table keeps: agged.dropna(how="all")
PivotGroups(agged) ==
    {g \in DOMAIN agged : \E k \in DOMAIN ValueKinds : ~IsNull(agged[g][k])}

\* The (value kind, metric) column labels left after unstack and
\* table.dropna(how="all", axis=1)
PivotLabels(agged) ==
    UNION {{<<k, g[3]>> : k \in {h \in DOMAIN ValueKinds : ~IsNull(agged[g][h])}}
           : g \in PivotGroups(agged)}

\* A label as one name, before it is standardized
LabelId(l) == ValueKinds[l[1]] \o <<"_">> \o l[2]

\* '_'.join([str(col).lower() for col in col_tuple]).strip('_'), then
\* .str.replace(' ', '_')
ColumnKey(l) ==
    ReplaceSpaces(StripUnderscores(Lower(ValueKinds[l[1]]) \o <<"_">> \o Lower(l[2])))

\* columns_to_nullify: the keys that start with one of the three prefixes
IsValueColumn(k) ==
    \E i \in DOMAIN ValueKinds : StartsWith(k, ValueKinds[i] \o <<"_">>)

\* The column left as it is
KeepZero(v) == v

\* .replace(0, np.nan)
NullifyZero(v) == IF v = Num(0) THEN NaN ELSE v

\* One cell of the pivoted frame: the standardized name decides the rewrite
PivotCell(agged, c, p, l) ==
    LET wide == IF <<c, p, l[2]>> \in PivotGroups(agged)
                THEN agged[<<c, p, l[2]>>][l[1]] ELSE NaN
    IN  IF IsValueColumn(ColumnKey(l)) THEN NullifyZero(wide) ELSE wide

pivot_financial_data(d) ==
    LET agged  == Aggregated(d)
        label  == [c \in {LabelId(l) : l \in PivotLabels(agged)} |->
                     CHOOSE l \in PivotLabels(agged) : LabelId(l) = c]
    IN  [cols |-> DOMAIN label,
         key  |-> [c \in DOMAIN label |-> ColumnKey(label[c])],
         rows |-> {[company_name |-> pair[1],
                    time_period  |-> pair[2],
                    cells |-> [c \in DOMAIN label |->
                                 PivotCell(agged, pair[1], pair[2], label[c])]]
                   : pair \in {<<g[1], g[2]>> : g \in PivotGroups(agged)}}]

----------------------------------------------------------------------------
(* calculate_derived_metrics *)

\* str(metric_info['formula']): the repr of a lambda, "<function <lambda> at 0x..>"
FormulaStr == <<"<", "function", " ", "<", "lambda", ">", " ", "at", " ", "0x", ">">>

\* The columns the first loop appends to derived_metrics (col in formula_str):
\* none of the names a table carries occurs in the repr of a function.
AppendedColumns(t) == {c \in Columns(t) : Contains(FormulaStr, c)}

\* The first df['...'] lookup of metric i that raises KeyError, <<>> if none does
MissingRead(t, i) ==
    LET reads == DERIVED_METRICS[i].reads
        bad == {j \in DOMAIN reads : reads[j] \notin Columns(t)}
    IN  IF bad = {} THEN <<>>
        ELSE reads[CHOOSE j \in bad : \A h \in bad : j <= h]

\* The call with a formula that reads an absent column skipped instead of raised
calculate_derived_metrics_skipping(t) ==
    LET names == {DERIVED_METRICS[i].name :
                    i \in {j \in DOMAIN DERIVED_METRICS : MissingRead(t, j) = <<>>}}
        value(r, n) == LET get(k) == Cell(t, r, k) IN Formula(n, get)
    IN  [raised |-> FALSE,
         error  |-> [kind |-> "none", stage |-> "none", args |-> <<>>],
         logged |-> [level |-> "info", text |-> "Derived metrics calculated",
                     metric |-> <<>>, column |-> <<>>],
         table  |-> AddColumns(t, names, value)]

\* The result of the call: either the widened table or the KeyError of the first
\* formula (in registry order) that reads an absent column, with what is logged.
calculate_derived_metrics(t) ==
    LET failing == {i \in DOMAIN DERIVED_METRICS : MissingRead(t, i) # <<>>}
        first == CHOOSE i \in failing : \A h \in failing : i <= h
        names == {DERIVED_METRICS[i].name : i \in DOMAIN DERIVED_METRICS}
        spec(n) == CHOOSE i \in DOMAIN DERIVED_METRICS : DERIVED_METRICS[i].name = n
        value(r, n) == LET get(k) == Cell(t, r, k) IN Formula(n, get)
    IN  IF failing # {}
        THEN [raised |-> TRUE,
              error  |-> [kind |-> "KeyError", stage |-> "derive",
                          args |-> <<MissingRead(t, first)>>],
              logged |-> [level |-> "error", text |-> "Missing column for",
                          metric |-> DERIVED_METRICS[first].name,
                          column |-> MissingRead(t, first)],
              table  |-> EmptyTable]
        ELSE IF AppendedColumns(t) # {}
        THEN LET c == CHOOSE x \in AppendedColumns(t) : TRUE
             IN  [raised |-> TRUE,
                  error  |-> [kind |-> "KeyError", stage |-> "derive", args |-> <<c>>],
                  logged |-> [level |-> "error", text |-> "Missing column for",
                              metric |-> c, column |-> c],
                  table  |-> EmptyTable]
        ELSE [raised |-> FALSE,
              error  |-> [kind |-> "none", stage |-> "none", args |-> <<>>],
              logged |-> [level |-> "info", text |-> "Derived metrics calculated",
                          metric |-> <<>>, column |-> <<>>],
              table  |-> AddColumns(t, names, value)]

----------------------------------------------------------------------------
(* confirm_availability_of_metrics_used_for_risk_ratings *)

\* What one rule appends to undefined_metrics
UndefinedOfRule(t, i) ==
    LET d == RISK_FLAG_DEFINITIONS[i]
    IN  (IF d.metric_name \notin Columns(t)
         THEN <<[metric |-> d.metric_name, flag |-> d.flag]>> ELSE <<>>)
        \o
        (IF d.threshold_type = "str" /\ d.threshold \notin Columns(t)
         THEN <<[metric |-> d.threshold, flag |-> d.flag]>> ELSE <<>>)

\* undefined_metrics after the first n rules
RECURSIVE UndefinedMetrics(_, _)
UndefinedMetrics(t, n) ==
    IF n = 0 THEN <<>> ELSE UndefinedMetrics(t, n - 1) \o UndefinedOfRule(t, n)

\* The check stopped at the first undefined reference
confirm_availability_first_only(t) ==
    SubSeq(UndefinedMetrics(t, Len(RISK_FLAG_DEFINITIONS)), 1, 1)

confirm_availability_of_metrics_used_for_risk_ratings(t) ==
    UndefinedMetrics(t, Len(RISK_FLAG_DEFINITIONS))

----------------------------------------------------------------------------
(* calculate_risk_ratings *)

risk_flags == U(<<"risk", "flags">>)
risk_rating == U(<<"risk", "rating">>)
num_flags_with_missing_underlying_data ==
    U(<<"num", "flags", "with", "missing", "underlying", "data">>)

\* compare = optional[0] if len(optional) > 0 else False
Compare(d) == IF Len(d.optional) > 0 THEN d.optional[1] ELSE FALSE

\* required_metrics without the comparison metric
RequiredMetricsPrimaryOnly(d) == <<d.metric_name>>

\* required_metrics of a rule
RequiredMetrics(d) ==
    <<d.metric_name>> \o (IF Compare(d) THEN <<d.threshold>> ELSE <<>>)

\* No row taken as missing
MissingMetricsNone(t, r, d) == FALSE

\* missing_metrics at one row: df[required_metrics].isnull().any(axis=1)
MissingMetrics(t, r, d) ==
    \E j \in DOMAIN RequiredMetrics(d) : IsNull(Cell(t, r, RequiredMetrics(d)[j]))

\* The comparisons with <= and >= in place of < and >
ThresholdHoldsNonStrict(t, r, d) ==
    LET x == Cell(t, r, d.metric_name)
    IN  IF Compare(d)
        THEN CASE d.operator = "<" -> Ge(Cell(t, r, d.threshold), x)
               [] d.operator = ">" -> Ge(x, Cell(t, r, d.threshold))
               [] OTHER -> FALSE
        ELSE CASE d.operator = "<" -> Ge(d.threshold, x)
               [] d.operator = ">" -> Ge(x, d.threshold)
               [] d.operator = "between" ->
                     Ge(x, d.threshold[1]) /\ Lt(x, d.threshold[2])
               [] OTHER -> FALSE

\* 'between' with the upper bound included
ThresholdHoldsClosedUpper(t, r, d) ==
    LET x == Cell(t, r, d.metric_name)
    IN  IF Compare(d)
        THEN CASE d.operator = "<" -> Lt(x, Cell(t, r, d.threshold))
               [] d.operator = ">" -> Gt(x, Cell(t, r, d.threshold))
               [] OTHER -> FALSE
        ELSE CASE d.operator = "<" -> Lt(x, d.threshold)
               [] d.operator = ">" -> Gt(x, d.threshold)
               [] d.operator = "between" ->
                     Ge(x, d.threshold[1]) /\ Ge(d.threshold[2], x)
               [] OTHER -> FALSE

\* The comparison of the rule's operator branch at one row
ThresholdHolds(t, r, d) ==
    LET x == Cell(t, r, d.metric_name)
    IN  IF Compare(d)
        THEN CASE d.operator = "<" -> Lt(x, Cell(t, r, d.threshold))
               [] d.operator = ">" -> Gt(x, Cell(t, r, d.threshold))
               [] OTHER -> FALSE
        ELSE CASE d.operator = "<" -> Lt(x, d.threshold)
               [] d.operator = ">" -> Gt(x, d.threshold)
               [] d.operator = "between" ->
                     Ge(x, d.threshold[1]) /\ Lt(x, d.threshold[2])
               [] OTHER -> FALSE

\* The rule's flag column at one row: initialised to 0, set to -1 where a
\* required metric is missing, then to 1 where valid_data and the comparison hold.
Flag(t, r, d) ==
    LET initial == 0
        marked  == IF MissingMetrics(t, r, d) THEN -1 ELSE initial
    IN  IF ~MissingMetrics(t, r, d) /\ ThresholdHolds(t, r, d) THEN 1 ELSE marked

\* The row of flag values, in the order of risk_flag_columns
FlagRow(t, r) == [i \in Rules |-> Flag(t, r, RISK_FLAG_DEFINITIONS[i])]

RECURSIVE SumSeq(_)
SumSeq(s) == IF s = <<>> THEN 0 ELSE Head(s) + SumSeq(Tail(s))

\* row[row != -1]
NotMissing(flags) == SelectSeq(flags, LAMBDA f : f # -1)

\* n/d rounded to the nearest integer, ties upwards
RoundHalfUp(n, d) ==
    LET f == n \div d
    IN  IF 2 * (n - f * d) < d THEN f ELSE f + 1

\* n/d rounded to the nearest integer, ties to the even one (d > 0)
RoundHalfEven(n, d) ==
    LET f == n \div d
        rem == n - f * d
    IN  IF 2 * rem < d THEN f
        ELSE IF 2 * rem > d THEN f + 1
        ELSE IF f % 2 = 0 THEN f ELSE f + 1

\* round(x, 1)
Round1(x) == IF x.den = 0 THEN x ELSE Rat(RoundHalfEven(x.num * 10, x.den), 10)

\* Series.mean()
Mean(s) == Rat(SumSeq(s), Len(s))

\* The rating with all(row != -1) in place of any(row != -1)
RiskRatingAllPresent(flags) ==
    IF NotMissing(flags) = flags
    THEN Round1(Mul(Mean(NotMissing(flags)), Num(10)))
    ELSE Num(-1)

\* round(row[row != -1].mean() * 10, 1) if any(row != -1) else -1
RiskRating(flags) ==
    IF NotMissing(flags) # <<>>
    THEN Round1(Mul(Mean(NotMissing(flags)), Num(10)))
    ELSE Num(-1)

\* sum(val for val in row if val == -1)
NumMissingSigned(flags) == SumSeq(SelectSeq(flags, LAMBDA f : f = -1))

\* sum(val == -1 for val in row)
NumMissing(flags) == Len(SelectSeq(flags, LAMBDA f : f = -1))

calculate_risk_ratings(t) ==
    LET flagOf(n) == CHOOSE i \in Rules : RISK_FLAG_DEFINITIONS[i].flag = n
        value(r, c) ==
            IF c \in RiskFlagNames THEN Num(FlagRow(t, r)[flagOf(c)])
            ELSE IF c = risk_flags THEN Num(0)
            ELSE IF c = risk_rating THEN RiskRating(FlagRow(t, r))
            ELSE Num(NumMissing(FlagRow(t, r)))
    IN  AddColumns(t, RiskFlagNames \cup
                      {risk_flags, risk_rating, num_flags_with_missing_underlying_data},
                   value)

----------------------------------------------------------------------------
(* prepare_output_data, write_current_risk_ratings *)

\* [col for col in df.columns if col.endswith('_flag')]
FlagColumns(t) == {k \in Columns(t) : EndsWith(k, <<"_", "flag">>)}

\* get_metrics_from_risk_flag_definitions(df)[1]
metrics_from_risk_flags(t) ==
    {RISK_FLAG_DEFINITIONS[i].metric_name : i \in Rules}
    \cup {RISK_FLAG_DEFINITIONS[i].threshold : i \in
            {j \in Rules : /\ RISK_FLAG_DEFINITIONS[j].threshold_type = "str"
                           /\ RISK_FLAG_DEFINITIONS[j].threshold \in Columns(t)}}

\* get_formula_dependencies over every formula's source, kept when in df.columns
FormulaDependencies(t) ==
    {k \in Columns(t) : \E i \in DOMAIN DERIVED_METRICS :
        \E j \in DOMAIN DERIVED_METRICS[i].reads : DERIVED_METRICS[i].reads[j] = k}

\* desired_column_order, the two identity columns left out
DesiredColumns(t, risk_flag_columns) ==
    {risk_rating, num_flags_with_missing_underlying_data}
    \cup risk_flag_columns
    \cup {DERIVED_METRICS[i].name : i \in DOMAIN DERIVED_METRICS}
    \cup FormulaDependencies(t)
    \cup metrics_from_risk_flags(t)

prepare_output_data(t, risk_flag_columns) ==
    SelectColumns(t, DesiredColumns(t, risk_flag_columns))

\* col.replace('_flag', '')
RECURSIVE RemoveFlagSuffix(_)
RemoveFlagSuffix(name) ==
    IF Len(name) < 2 THEN name
    ELSE IF SubSeq(name, 1, 2) = <<"_", "flag">>
         THEN RemoveFlagSuffix(SubSeq(name, 3, Len(name)))
         ELSE <<Head(name)>> \o RemoveFlagSuffix(Tail(name))

\* aggregate_flags with the column names listed as they are
aggregate_flags_with_suffix(t, r, value) ==
    LET flags == {c \in FlagColumns(t) : Cell(t, r, c) = Num(value)}
    IN  IF flags # {} THEN flags
        ELSE IF value = 1 THEN {<<"no", " ", "flags">>}
        ELSE {<<"no", " ", "missing", " ", "data">>}

\* aggregate_flags(row, value): the string it returns, as the set of its
\* comma-separated items
aggregate_flags(t, r, value) ==
    LET flags == {RemoveFlagSuffix(k) :
                    k \in {c \in FlagColumns(t) : Cell(t, r, c) = Num(value)}}
    IN  IF flags # {} THEN flags
        ELSE IF value = 1 THEN {<<"no", " ", "flags">>}
        ELSE {<<"no", " ", "missing", " ", "data">>}

\* The frame handed to to_gbq were the rows of every period kept
CurrentSnapshotAllPeriods(t) ==
    {[company_name |-> r.company_name,
      time_period  |-> r.time_period,
      cells |-> r.cells,
      risk_flags_flagged |-> aggregate_flags(t, r, 1),
      risk_flags_flagged_num |->
          Cardinality({c \in FlagColumns(t) : Cell(t, r, c) = Num(1)}),
      risk_flags_with_missing_underlying_data |-> aggregate_flags(t, r, -1)]
     : r \in t.rows}

\* The frame handed to to_gbq: the rows of each company's latest period, with the
\* three aggregated columns added
CurrentSnapshot(t) ==
    {[company_name |-> r.company_name,
      time_period  |-> r.time_period,
      cells |-> r.cells,
      risk_flags_flagged |-> aggregate_flags(t, r, 1),
      risk_flags_flagged_num |->
          Cardinality({c \in FlagColumns(t) : Cell(t, r, c) = Num(1)}),
      risk_flags_with_missing_underlying_data |-> aggregate_flags(t, r, -1)]
     : r \in {x \in t.rows :
                \A y \in t.rows :
                    y.company_name = x.company_name => y.time_period <= x.time_period}}

----------------------------------------------------------------------------
(* The source tables the runs are checked on *)

\* Runs of process_risk_ratings one behaviour makes (repeated POST /process)
MaxRuns == 2

\* Periods a company reports
MaxPeriods == 2

\* Metrics the source leaves out altogether
MaxOmitted == 2

Companies == <<"A", "B">>

\* The metric names of the source table, one spelling each
MetricNames == <<revenue, operating_income, costs_of_goods_sold, inventory, cash,
                 accounts_receivable, accounts_payable, credit_cards, ab_loan_balance,
                 cumulative_retained_earnings, contributed_capital>>

\* The number every observation of a source is built from (0: reported as zero)
SourceValues == {-2, 0, 3}

Range(s) == {s[i] : i \in DOMAIN s}

\* The (company, period) pairs of a source in which company c reports periods
\* 1..np[c], in table order (a later company reports no more periods than an
\* earlier one: the companies are interchangeable)
RECURSIVE SourcePairs(_, _)
SourcePairs(np, c) ==
    IF c = 0 THEN <<>>
    ELSE SourcePairs(np, c - 1) \o [p \in 1..np[c] |-> <<Companies[c], p>>]

\* The rows of one (company, period): one per metric, period value and trailing
\* average v * period, prior trailing average v
RECURSIVE SourceRows(_, _, _)
SourceRows(pairs, metrics, v) ==
    IF pairs = <<>> THEN <<>>
    ELSE [j \in DOMAIN metrics |->
            Observation(Head(pairs)[1], Head(pairs)[2], metrics[j],
                        Num(v * Head(pairs)[2]), Num(v * Head(pairs)[2]), Num(v))]
         \o SourceRows(Tail(pairs), metrics, v)

SourceTables ==
    {SourceRows(SourcePairs(np, Len(Companies)),
                SelectSeq(MetricNames, LAMBDA m : m \notin omitted), v) :
        np \in {n \in [DOMAIN Companies -> 0..MaxPeriods] :
                   \A c \in DOMAIN Companies : c > 1 => n[c] <= n[c - 1]},
        omitted \in {o \in SUBSET Range(MetricNames) : Cardinality(o) <= MaxOmitted},
        v \in SourceValues}

----------------------------------------------------------------------------
(* The lists built from the registries' keys *)

\* The keys of the two module-level dictionaries, in their order
RegistryKeys ==
    [DERIVED_METRICS |-> [i \in DOMAIN DERIVED_METRICS |-> DERIVED_METRICS[i].name],
     RISK_FLAG_DEFINITIONS |-> [i \in Rules |-> RISK_FLAG_DEFINITIONS[i].flag]]

\* The list objects of a call: the two registries' keys and the call's own list
Heap(reg) ==
    [DERIVED_METRICS |-> reg.DERIVED_METRICS,
     RISK_FLAG_DEFINITIONS |-> reg.RISK_FLAG_DEFINITIONS,
     local |-> <<>>]

\* What is left of the heap when the call returns
Globals(heap) ==
    [DERIVED_METRICS |-> heap.DERIVED_METRICS,
     RISK_FLAG_DEFINITIONS |-> heap.RISK_FLAG_DEFINITIONS]

\* A name bound to the registry's own keys, no copy made
keys_alias(heap, registry) == [heap |-> heap, ref |-> registry]

\* list(REGISTRY.keys()): a new list object that holds the keys
list_of_keys(heap, registry) ==
    [heap |-> [heap EXCEPT !.local = heap[registry]], ref |-> "local"]

\* ref.extend(items), ref.append(item)
extend(heap, ref, items) == [heap EXCEPT ![ref] = @ \o items]

\* The elements of a set in some order
Listed(S) == CHOOSE q \in [1..Cardinality(S) -> S] : \A x \in S : \E i \in DOMAIN q : q[i] = x

\* calculate_derived_metrics: derived_metrics = list(DERIVED_METRICS.keys()),
\* then derived_metrics.append(col) for the columns found in a formula's str
calculate_derived_metrics_lists(reg, t) ==
    LET derived_metrics == list_of_keys(Heap(reg), "DERIVED_METRICS")
    IN  Globals(extend(derived_metrics.heap, derived_metrics.ref,
                       Listed(AppendedColumns(t))))

\* prepare_output_data: derived_metrics = list(DERIVED_METRICS.keys()),
\* columns_to_convert = derived_metrics, columns_to_convert.extend([...])
prepare_output_data_lists(reg) ==
    LET derived_metrics == list_of_keys(Heap(reg), "DERIVED_METRICS")
        columns_to_convert == derived_metrics.ref
    IN  Globals(extend(derived_metrics.heap, columns_to_convert,
                       <<risk_rating, num_flags_with_missing_underlying_data>>))

----------------------------------------------------------------------------
(* The query job of fetch_financial_data *)

\* No query submitted
NoJob ==
    [submissions |-> 0, state |-> "none", errors |-> FALSE, cancelled |-> FALSE,
     raised |-> "none", main |-> "none", worker |-> "none"]

\* The job and the two threads when fetch_financial_data has returned, or has
\* raised after the failure
Settled(failure) ==
    [submissions |-> 1,
     state |-> IF failure \in {"none", "job_errors", "timeout"} THEN "done" ELSE "none",
     errors |-> failure = "job_errors",
     cancelled |-> failure = "timeout",
     raised |-> failure,
     main |-> IF failure = "none" THEN "returned" ELSE "raised",
     worker |-> IF failure \in {"none", "job_errors", "timeout"}
                THEN "returned" ELSE "none"]

----------------------------------------------------------------------------
(* The environment the setup and cleanup scripts act on *)

\* A manifest entry: status, whether it has notes and a cleanup date
Entry(status, notes, cleanup_date) ==
    [status |-> status, notes |-> notes, cleanup_date |-> cleanup_date]

NoEntry == Entry("absent", FALSE, FALSE)

\* results of cleanup_environment; a key that is not set reads FALSE
NoResults ==
    [status |-> "none", repo_archived |-> FALSE, project_deleted |-> FALSE,
     local_files_cleaned |-> FALSE, manifest_updated |-> FALSE, error |-> <<>>]

\* The environment before anything was created
NoWorld ==
    [project |-> "absent", repo |-> "absent", local_files |-> FALSE,
     manifest_file |-> NoEntry]

\* No script is running
NoCall ==
    [name |-> "none", pc |-> "idle", calls |-> 0, dry_run |-> FALSE,
     archive_repo |-> FALSE, delete_project |-> FALSE, manifest |-> FALSE,
     results |-> NoResults, error |-> <<>>, raised |-> <<>>, steps |-> <<>>,
     update_failed |-> FALSE, before |-> NoWorld]

\* The pipeline runs beside a contractor environment nobody touches
ScriptsIdle ==
    /\ world = [project |-> "active", repo |-> "active", local_files |-> TRUE,
                manifest_file |-> Entry("active", FALSE, FALSE)]
    /\ script = NoCall
    /\ environments = NoEntry
    /\ commands = <<>>

----------------------------------------------------------------------------
(* process_risk_ratings, one action per stage *)

NoError == [kind |-> "none", stage |-> "none", args |-> <<>>]

NoSink == [written_by |-> 0, rows |-> {}, num_rows |-> 0]

\* to_gbq with if_exists='append': the frame's rows are added to the table's
to_gbq_append(table, frame, r) ==
    [written_by |-> r, rows |-> table.rows \cup frame,
     num_rows |-> table.num_rows + Cardinality(frame)]

\* to_gbq that leaves a table that already exists as it is
to_gbq_keep_existing(table, frame, r) ==
    IF table.written_by # 0 THEN table
    ELSE [written_by |-> r, rows |-> frame, num_rows |-> Cardinality(frame)]

\* pandas_gbq.to_gbq(frame, table_path, if_exists='replace', ...) by run r: the
\* table is dropped and created again from the frame
to_gbq(table, frame, r) ==
    [written_by |-> r, rows |-> frame, num_rows |-> Cardinality(frame)]

\* No answer (yet)
NoResponse == [status |-> "none", message |-> <<>>, code |-> 0]

\* health_check(): jsonify({"status": "healthy"}), 200
health_check == [status |-> "healthy", message |-> <<>>, code |-> 200]

\* The answer of trigger_processing with the except branch left out
trigger_processing_always_success(e) ==
    [status |-> "success", message |-> <<>>, code |-> 200]

\* trigger_processing(): the answer to a call of process_risk_ratings that
\* returned (e = NoError) or raised e; str(e) is the exception's arguments
trigger_processing(e) ==
    IF e = NoError
    THEN [status |-> "success", message |-> <<>>, code |-> 200]
    ELSE [status |-> "error", message |-> <<e.kind>> \o e.args, code |-> 500]

Init ==
    /\ run = 0
    /\ pc = "idle"
    /\ source \in SourceTables
    /\ df = <<>>
    /\ pivoted_df = EmptyTable
    /\ derived_df = EmptyTable
    /\ risk_df = EmptyTable
    /\ output_df = EmptyTable
    /\ historical = NoSink
    /\ current = NoSink
    /\ error = NoError
    /\ log = <<>>
    /\ outcome = [r \in 1..MaxRuns |-> "none"]
    /\ response = NoResponse
    /\ health = NoResponse
    /\ query_job = NoJob
    /\ registries = RegistryKeys
    /\ ScriptsIdle

\* The run ends in the exception e, raised to the caller, after logging rec
Raise(e, rec) ==
    /\ pc' = "failed"
    /\ error' = e
    /\ log' = Append(log, rec)
    /\ outcome' = [outcome EXCEPT ![run] = "failed"]
    /\ response' = trigger_processing(e)

LogEntry(level, text) == [level |-> level, text |-> text, metric |-> <<>>, column |-> <<>>]

\* A call of process_risk_ratings begins (direct execution, or POST /process)
StartRun ==
    /\ pc \in {"idle", "done", "failed"}
    /\ run < MaxRuns
    /\ run' = run + 1
    /\ pc' = "credentials"
    /\ df' = <<>>
    /\ pivoted_df' = EmptyTable
    /\ derived_df' = EmptyTable
    /\ risk_df' = EmptyTable
    /\ output_df' = EmptyTable
    /\ error' = NoError
    /\ log' = <<>>
    /\ outcome' = [outcome EXCEPT ![run + 1] = "running"]
    /\ response' = NoResponse
    /\ query_job' = NoJob
    /\ UNCHANGED <<source, historical, current, health, registries, scriptVars>>

\* bq_credentials = get_bigquery_credentials()
GetCredentials ==
    /\ pc = "credentials"
    /\ \E ok \in BOOLEAN :
        IF ok
        THEN /\ pc' = "client"
             /\ UNCHANGED <<error, log, outcome, response>>
        ELSE Raise([kind |-> "Exception", stage |-> "credentials", args |-> <<>>],
                   LogEntry("error", "Failed to load credentials from Secret Manager"))
    /\ UNCHANGED <<run, source, df, pivoted_df, derived_df, risk_df, output_df,
                   historical, current, health,
                   query_job, registries, scriptVars>>

\* client = bigquery.Client(...)
CreateClient ==
    /\ pc = "client"
    /\ \E ok \in BOOLEAN :
        IF ok
        THEN /\ pc' = "fetch"
             /\ UNCHANGED <<error, log, outcome, response>>
        ELSE Raise([kind |-> "Exception", stage |-> "client", args |-> <<>>],
                   LogEntry("error", "Failed to create BigQuery client."))
    /\ UNCHANGED <<run, source, df, pivoted_df, derived_df, risk_df, output_df,
                   historical, current, health,
                   query_job, registries, scriptVars>>

\* How the query job of fetch_financial_data can end
FetchFailures == {"job_errors", "timeout", "Syntax error", "Not found",
                  "Permission denied", "unknown"}

\* The logger.error of fetch_financial_data's except branch
FetchErrorLog(failure) ==
    CASE failure = "Syntax error" -> "SQL syntax error in query"
      [] failure = "Not found" -> "Table or dataset not found"
      [] failure = "Permission denied" -> "Permission denied"
      [] OTHER -> "Failed to execute BigQuery query"

\* df = fetch_financial_data(client)
Fetch ==
    /\ pc = "fetch"
    /\ \/ /\ df' = source
          /\ pc' = "pivot"
          /\ query_job' = Settled("none")
          /\ log' = IF source = <<>>
                    THEN Append(log, LogEntry("warning", "Query returned no results"))
                    ELSE log
          /\ UNCHANGED <<error, outcome, response>>
       \/ /\ \E failure \in FetchFailures :
                /\ Raise([kind |-> "ValueError", stage |-> "fetch",
                          args |-> <<"BigQuery query failed", failure>>],
                         LogEntry("error", FetchErrorLog(failure)))
                /\ query_job' = Settled(failure)
          /\ UNCHANGED df
    /\ UNCHANGED <<run, source, pivoted_df, derived_df, risk_df, output_df,
                   historical, current, health, registries, scriptVars>>

\* pivoted_df = pivot_financial_data(df)
Pivot ==
    /\ pc = "pivot"
    /\ pivoted_df' = pivot_financial_data(df)
    /\ pc' = "derive"
    /\ UNCHANGED <<run, source, df, derived_df, risk_df, output_df, historical,
                   current, error, log, outcome, response, health,
                   query_job, registries, scriptVars>>

\* derived_df = calculate_derived_metrics(pivoted_df)
Derive ==
    /\ pc = "derive"
    /\ LET res == calculate_derived_metrics(pivoted_df)
       IN  IF res.raised
           THEN /\ Raise(res.error, res.logged)
                /\ UNCHANGED derived_df
           ELSE /\ derived_df' = res.table
                /\ pc' = "validate"
                /\ UNCHANGED <<error, log, outcome, response>>
    /\ registries' = calculate_derived_metrics_lists(registries, pivoted_df)
    /\ UNCHANGED <<run, source, df, pivoted_df, risk_df, output_df, historical,
                   current, health, query_job, scriptVars>>

\* Validate with the raise left out: the undefined references are passed over
ValidateWithoutRaise ==
    /\ pc = "validate"
    /\ pc' = "score"
    /\ UNCHANGED <<run, source, df, pivoted_df, derived_df, risk_df, output_df,
                   historical, current, error, log, outcome, response, health,
                   query_job, registries, scriptVars>>

\* confirm_availability_of_metrics_used_for_risk_ratings(derived_df)
Validate ==
    /\ pc = "validate"
    /\ LET undefined == confirm_availability_of_metrics_used_for_risk_ratings(derived_df)
       IN  IF undefined # <<>>
           THEN Raise([kind |-> "ValueError", stage |-> "validate", args |-> undefined],
                      [level |-> "error",
                       text |-> "RISK_FLAG_DEFINITIONS references undefined metrics",
                       metric |-> undefined, column |-> <<>>])
           ELSE /\ pc' = "score"
                /\ UNCHANGED <<error, log, outcome, response>>
    /\ UNCHANGED <<run, source, df, pivoted_df, derived_df, risk_df, output_df,
                   historical, current, health,
                   query_job, registries, scriptVars>>

\* risk_df = calculate_risk_ratings(derived_df)
Score ==
    /\ pc = "score"
    /\ risk_df' = calculate_risk_ratings(derived_df)
    /\ pc' = "prepare"
    /\ UNCHANGED <<run, source, df, pivoted_df, derived_df, output_df, historical,
                   current, error, log, outcome, response, health,
                   query_job, registries, scriptVars>>

\* output_df = prepare_output_data(risk_df, risk_flag_columns)
PrepareOutput ==
    /\ pc = "prepare"
    /\ output_df' = prepare_output_data(risk_df, FlagColumns(risk_df))
    /\ pc' = "write_historical"
    /\ registries' = prepare_output_data_lists(registries)
    /\ UNCHANGED <<run, source, df, pivoted_df, derived_df, risk_df, historical,
                   current, error, log, outcome, response, health,
                   query_job, scriptVars>>

\* write_risk_rating_output_to_bigquery(output_df, bq_credentials):
\* pandas_gbq.to_gbq(..., if_exists='replace') replaces the table or raises
WriteHistorical ==
    /\ pc = "write_historical"
    /\ \/ /\ historical' = to_gbq(historical, output_df.rows, run)
          /\ pc' = "write_current"
          /\ UNCHANGED <<error, log, outcome, response>>
       \/ /\ Raise([kind |-> "Exception", stage |-> "write_historical", args |-> <<>>],
                   LogEntry("error", "Failed to write data to BigQuery"))
          /\ UNCHANGED historical
    /\ UNCHANGED <<run, source, df, pivoted_df, derived_df, risk_df, output_df, current,
                   health,
                   query_job, registries, scriptVars>>

\* write_current_risk_ratings(output_df, bq_credentials)
WriteCurrent ==
    /\ pc = "write_current"
    /\ \/ /\ current' = to_gbq(current, CurrentSnapshot(output_df), run)
          /\ pc' = "done"
          /\ outcome' = [outcome EXCEPT ![run] = "ok"]
          /\ response' = trigger_processing(NoError)
          /\ UNCHANGED <<error, log>>
       \/ /\ Raise([kind |-> "Exception", stage |-> "write_current", args |-> <<>>],
                   LogEntry("error", "Failed to write current risk ratings to BigQuery"))
          /\ UNCHANGED current
    /\ UNCHANGED <<run, source, df, pivoted_df, derived_df, risk_df, output_df,
                   historical, health,
                   query_job, registries, scriptVars>>

Next ==
    \/ StartRun
    \/ GetCredentials
    \/ CreateClient
    \/ Fetch
    \/ Pivot
    \/ Derive
    \/ Validate
    \/ Score
    \/ PrepareOutput
    \/ WriteHistorical
    \/ WriteCurrent

Spec == Init /\ [][Next]_vars

----------------------------------------------------------------------------
(* calculate_risk_ratings on its own: derived tables drawn from bounded sets *)

\* The columns the rules read
RuleColumns ==
    {RISK_FLAG_DEFINITIONS[i].metric_name : i \in Rules}
    \cup {RISK_FLAG_DEFINITIONS[i].threshold :
            i \in {j \in Rules : RISK_FLAG_DEFINITIONS[j].threshold_type = "str"}}

\* The rule whose primary metric is column k
RuleOf(k) == RISK_FLAG_DEFINITIONS[CHOOSE i \in Rules : RISK_FLAG_DEFINITIONS[i].metric_name = k]

\* Three values of column k: null, one that does not trigger the rule that reads
\* it (the threshold itself, the upper bound) and one that does
LevelValues(k) ==
    IF \A i \in Rules : RISK_FLAG_DEFINITIONS[i].metric_name # k
    THEN {NaN, Num(2)}
    ELSE CASE RuleOf(k).threshold_type = "str" -> {NaN, Num(2), Num(3)}
           [] RuleOf(k).threshold_type = "tuple" ->
                 {NaN, RuleOf(k).threshold[1], RuleOf(k).threshold[2]}
           [] RuleOf(k).operator = "<" ->
                 {NaN, RuleOf(k).threshold, Sub(RuleOf(k).threshold, Num(1))}
           [] OTHER ->
                 {NaN, RuleOf(k).threshold, Add(RuleOf(k).threshold, Num(1))}

\* Every assignment of a level value to each column of cols
RECURSIVE LevelRows(_)
LevelRows(cols) ==
    IF cols = {} THEN {[c \in {} |-> NaN]}
    ELSE LET k == CHOOSE c \in cols : TRUE
         IN  {(k :> v) @@ f : v \in LevelValues(k), f \in LevelRows(cols \ {k})}

\* Values around every threshold of the registry
ProbeValues == <<NaN, Num(-1), Rat(-1, 2), Num(0), Rat(1, 4), Rat(1, 2), Num(1),
                 Num(2), Num(3), Num(9999), Num(10000), Num(10001)>>

\* A table over the rule columns with the given rows, for company "A"
ScoreTable(cellsByPeriod) ==
    [cols |-> RuleColumns,
     key  |-> [c \in RuleColumns |-> c],
     rows |-> {[company_name |-> "A", time_period |-> p, cells |-> cellsByPeriod[p]]
               : p \in DOMAIN cellsByPeriod}]

\* One table per column: a row for each probe value, the other columns null
ProbeTables ==
    {ScoreTable([p \in DOMAIN ProbeValues |->
                    [c \in RuleColumns |-> IF c = k THEN ProbeValues[p] ELSE NaN]])
     : k \in RuleColumns}

\* One table per value of the comparison metric of the rule that compares two
\* metrics: a row for each probe value of its primary metric
ComparisonTables ==
    {ScoreTable([p \in DOMAIN ProbeValues |->
                    [c \in RuleColumns |->
                        IF c = RISK_FLAG_DEFINITIONS[i].metric_name THEN ProbeValues[p]
                        ELSE IF c = RISK_FLAG_DEFINITIONS[i].threshold THEN ProbeValues[q]
                        ELSE NaN]])
     : i \in {j \in Rules : RISK_FLAG_DEFINITIONS[j].threshold_type = "str"},
       q \in DOMAIN ProbeValues}

ScoreInputs ==
    {ScoreTable(<<f>>) : f \in LevelRows(RuleColumns)}
    \cup ProbeTables \cup ComparisonTables

InitScore ==
    /\ run = 1
    /\ pc = "score"
    /\ source = <<>>
    /\ df = <<>>
    /\ pivoted_df = EmptyTable
    /\ derived_df \in ScoreInputs
    /\ risk_df = EmptyTable
    /\ output_df = EmptyTable
    /\ historical = NoSink
    /\ current = NoSink
    /\ error = NoError
    /\ log = <<>>
    /\ outcome = [r \in 1..MaxRuns |-> IF r = 1 THEN "running" ELSE "none"]
    /\ response = NoResponse
    /\ health = NoResponse
    /\ query_job = NoJob
    /\ registries = RegistryKeys
    /\ ScriptsIdle

SpecScore == InitScore /\ [][Score]_vars

----------------------------------------------------------------------------
(* Claims about calculate_risk_ratings, over the scored table risk_df *)

\* a < b for two finite numbers
Less(a, b) == a.num * b.den < b.num * a.den

\* The rule compares its metric with another metric
ComparesMetrics(d) == d.threshold_type = "str"

\* A metric the rule requires is null in row r of the scored table
RequiredIsNull(r, d) ==
    \/ IsNull(Cell(risk_df, r, d.metric_name))
    \/ ComparesMetrics(d) /\ IsNull(Cell(risk_df, r, d.threshold))

\* The rules whose flag has the value f in row r
RulesWithFlag(r, f) ==
    {i \in Rules : Cell(risk_df, r, RISK_FLAG_DEFINITIONS[i].flag) = Num(f)}

\* C1: in every scored row, a rule whose primary metric is null, or whose
\* comparison metric is null when it compares two metrics, has flag -1, whatever
\* its operator and threshold.
C1_MissingDataWins ==
    \A r \in risk_df.rows : \A i \in Rules :
        LET d == RISK_FLAG_DEFINITIONS[i]
        IN  RequiredIsNull(r, d) => Cell(risk_df, r, d.flag) = Num(-1)

\* C1 happens: one scored table holds a row where only the comparison metric of
\* the two-metric rule is null, and rows where a '<' rule and the 'between'
\* rule miss their metric; each has flag -1.
C1_Witness ==
    /\ \E r \in risk_df.rows : \E i \in Rules :
         LET d == RISK_FLAG_DEFINITIONS[i]
         IN  /\ ComparesMetrics(d)
             /\ ~IsNull(Cell(risk_df, r, d.metric_name))
             /\ IsNull(Cell(risk_df, r, d.threshold))
             /\ Cell(risk_df, r, d.flag) = Num(-1)
    /\ \A op \in {"<", "between"} : \E r \in risk_df.rows : \E i \in Rules :
         LET d == RISK_FLAG_DEFINITIONS[i]
         IN  /\ d.operator = op
             /\ IsNull(Cell(risk_df, r, d.metric_name))
             /\ Cell(risk_df, r, d.flag) = Num(-1)

\* C2: every flag is -1, 0 or 1; it is -1 exactly when a required metric is
\* null; otherwise, for a '<' rule it is 1 when metric < threshold and 0 when
\* not, and for a '>' rule it is 1 when metric > threshold and 0 when not.
C2_ThreeFlagValues ==
    \A r \in risk_df.rows : \A i \in Rules :
        LET d == RISK_FLAG_DEFINITIONS[i]
            f == Cell(risk_df, r, d.flag)
            x == Cell(risk_df, r, d.metric_name)
            limit == IF ComparesMetrics(d) THEN Cell(risk_df, r, d.threshold)
                     ELSE d.threshold
        IN  /\ f \in {Num(-1), Num(0), Num(1)}
            /\ (f = Num(-1)) <=> RequiredIsNull(r, d)
            /\ (~RequiredIsNull(r, d) /\ d.operator = "<")
                   => (f = IF Less(x, limit) THEN Num(1) ELSE Num(0))
            /\ (~RequiredIsNull(r, d) /\ d.operator = ">")
                   => (f = IF Less(limit, x) THEN Num(1) ELSE Num(0))

\* C2 happens: one scored table holds a row where the metric of a '<' rule
\* equals its threshold (flag 0) and a row where it is below (flag 1).
C2_Witness ==
    \E i \in Rules :
        LET d == RISK_FLAG_DEFINITIONS[i]
        IN  /\ d.operator = "<"
            /\ \E r \in risk_df.rows :
                  Cell(risk_df, r, d.metric_name) = d.threshold
                  /\ Cell(risk_df, r, d.flag) = Num(0)
            /\ \E r \in risk_df.rows :
                  Less(Cell(risk_df, r, d.metric_name), d.threshold)
                  /\ ~IsNull(Cell(risk_df, r, d.metric_name))
                  /\ Cell(risk_df, r, d.flag) = Num(1)

\* C3: for a 'between' rule with bounds (lower, upper) and a non-null metric
\* value x, the flag is 1 exactly when lower <= x < upper.
C3_BetweenBounds ==
    \A r \in risk_df.rows : \A i \in Rules :
        LET d == RISK_FLAG_DEFINITIONS[i]
            x == Cell(risk_df, r, d.metric_name)
        IN  (d.operator = "between" /\ ~IsNull(x))
                => ((Cell(risk_df, r, d.flag) = Num(1))
                        <=> (~Less(x, d.threshold[1]) /\ Less(x, d.threshold[2])))

less_than_1_year_of_runway_flag == U(<<"less", "than", "1", "year", "of", "runway", "flag">>)

\* C3 happens: one scored table holds rows with years_of_runway 0, 1 and -1,
\* flagged 1, 0 and 0 by less_than_1_year_of_runway_flag.
C3_Witness ==
    /\ \E r \in risk_df.rows :
          Cell(risk_df, r, years_of_runway) = Num(0)
          /\ Cell(risk_df, r, less_than_1_year_of_runway_flag) = Num(1)
    /\ \E r \in risk_df.rows :
          Cell(risk_df, r, years_of_runway) = Num(1)
          /\ Cell(risk_df, r, less_than_1_year_of_runway_flag) = Num(0)
    /\ \E r \in risk_df.rows :
          Cell(risk_df, r, years_of_runway) = Num(-1)
          /\ Cell(risk_df, r, less_than_1_year_of_runway_flag) = Num(0)

\* C4: in every scored row, risk_rating is -1 if and only if every rule flag
\* is -1.
C4_UnratableSentinel ==
    \A r \in risk_df.rows :
        (RulesWithFlag(r, -1) = Rules) <=> (Cell(risk_df, r, risk_rating) = Num(-1))

\* C4 happens: one scored table holds a row whose flags are all -1, rated -1,
\* and a row with a flag that is not -1, rated otherwise.
C4_Witness ==
    /\ \E r \in risk_df.rows :
          RulesWithFlag(r, -1) = Rules /\ Cell(risk_df, r, risk_rating) = Num(-1)
    /\ \E r \in risk_df.rows :
          RulesWithFlag(r, -1) # Rules /\ Cell(risk_df, r, risk_rating) # Num(-1)

\* t tenths is 10 * k / n rounded to one decimal place (ties to the even tenth)
IsRoundedToTenths(t, k, n) ==
    /\ 2 * Abs(100 * k - t * n) <= n
    /\ (2 * Abs(100 * k - t * n) = n) => (t % 2 = 0)

\* C5: in every scored row with a flag that is not -1, risk_rating equals
\* round(10 * (flags equal to 1) / (flags not equal to -1), 1).
C5_RatingFormula ==
    \A r \in risk_df.rows :
        LET k == Cardinality(RulesWithFlag(r, 1))
            n == Cardinality(Rules \ RulesWithFlag(r, -1))
        IN  n > 0 => \E t \in 0..100 :
                        /\ Cell(risk_df, r, risk_rating) = Rat(t, 10)
                        /\ IsRoundedToTenths(t, k, n)

\* C5 happens: a scored row with 1 rule triggered of 8 not missing (10 * 1 / 8
\* = 1.25, a midpoint) is rated 1.2.
C5_Witness ==
    \E r \in risk_df.rows :
        /\ Cardinality(RulesWithFlag(r, 1)) = 1
        /\ Cardinality(RulesWithFlag(r, -1)) = 1
        /\ Cell(risk_df, r, risk_rating) = Rat(12, 10)

\* C6: in every scored row, num_flags_with_missing_underlying_data is the
\* number of rules whose flag is -1, between 0 and the number of rules.
C6_MissingCount ==
    \A r \in risk_df.rows :
        /\ Cell(risk_df, r, num_flags_with_missing_underlying_data)
               = Num(Cardinality(RulesWithFlag(r, -1)))
        /\ \E n \in 0..Len(RISK_FLAG_DEFINITIONS) :
               Cell(risk_df, r, num_flags_with_missing_underlying_data) = Num(n)

\* C6 happens: a scored row where exactly 4 rules miss their data carries the
\* count 4.
C6_Witness ==
    \E r \in risk_df.rows :
        /\ Cardinality(RulesWithFlag(r, -1)) = 4
        /\ Cell(risk_df, r, num_flags_with_missing_underlying_data) = Num(4)

----------------------------------------------------------------------------
(* Claims about process_risk_ratings *)

\* calculate_risk_ratings has run in the current run
Scored ==
    \/ pc \in {"prepare", "write_historical", "write_current", "done"}
    \/ pc = "failed" /\ error.stage \in {"write_historical", "write_current"}

\* C7: a run that ended in failure has written neither the historical table nor
\* the current-snapshot table.
C7_AllOrNothing ==
    \A r \in 1..MaxRuns :
        outcome[r] = "failed" => (historical.written_by # r /\ current.written_by # r)

\* The references of the rules to columns the table does not carry, each with
\* the rule that makes it
UndefinedRuleReferences(t) ==
    UNION {{[metric |-> m, flag |-> RISK_FLAG_DEFINITIONS[i].flag] :
              m \in {k \in {RISK_FLAG_DEFINITIONS[i].metric_name}
                           \cup (IF ComparesMetrics(RISK_FLAG_DEFINITIONS[i])
                                 THEN {RISK_FLAG_DEFINITIONS[i].threshold} ELSE {})
                     : k \notin Columns(t)}}
           : i \in Rules}

\* The run was stopped by a reference to a column that does not exist
StoppedByUndefinedReference == pc = "failed" /\ error.stage \in {"derive", "validate"}

\* C8 as stated: whenever a rule or a formula references a column that does not
\* exist, it is the validation pass that stops the run, with one error that
\* lists every undefined reference.
C8_AllReferencesValidated ==
    StoppedByUndefinedReference =>
        /\ error.stage = "validate"
        /\ Range(error.args) = UndefinedRuleReferences(derived_df)

\* C8 amended: no row is scored on a table in which a rule references an
\* undefined column; the validation pass stops such a run before scoring with
\* one logged error whose list is exactly the undefined references of the rules.
C8_RuleReferencesValidated ==
    /\ (pc = "score" \/ Scored) => UndefinedRuleReferences(derived_df) = {}
    /\ (pc = "failed" /\ error.stage = "validate") =>
          /\ error.kind = "ValueError"
          /\ Range(error.args) = UndefinedRuleReferences(derived_df)
          /\ UndefinedRuleReferences(derived_df) # {}
          /\ log[Len(log)].metric = error.args
          /\ Cardinality({i \in DOMAIN log : log[i].level = "error"}) = 1
          /\ risk_df = EmptyTable

\* C8 happens: a run stopped by the validation pass whose error lists two
\* undefined references.
C8_Witness ==
    /\ pc = "failed"
    /\ error.stage = "validate"
    /\ Cardinality(Range(error.args)) = 2
    /\ Cardinality(UndefinedRuleReferences(derived_df)) = 2

C10_EmptySourceCompletes ==
    (source = <<>> /\ pc = "failed")
        => error.stage \in {"credentials", "client", "fetch",
                            "write_historical", "write_current"}

----------------------------------------------------------------------------
(* pivot_financial_data on its own: raw tables drawn from bounded sets *)

\* Rows of a raw table of which every content and every order is tried
MaxRaw == 2

\* One metric in three spellings: the registry's, with a space, capitalised
RawMetricNames ==
    {operating_income, <<"operating", " ", "income">>, <<"Operating", "_", "income">>}

\* (company, period) of a raw row
RawKeys == {<<"A", 1>>, <<"A", 2>>, <<"B", 1>>}

\* (period_value, ttm_avg, pttm_avg) of a raw row: nulls, zeros, both signs
RawValues ==
    {<<NaN, NaN, NaN>>, <<Num(0), Num(3), NaN>>, <<Num(3), Num(-2), Num(0)>>,
     <<Num(-2), Num(0), Num(-2)>>}

RawObservations ==
    {Observation(k[1], k[2], m, v[1], v[2], v[3]) :
        k \in RawKeys, m \in RawMetricNames, v \in RawValues}

\* Three rows of the same (company, period, metric): re-ingestion duplicates
DuplicateTables ==
    {[i \in 1..3 |-> Observation("A", 1, operating_income, v[i][1], v[i][2], v[i][3])] :
        v \in [1..3 -> RawValues]}

RawTables ==
    UNION {[1..n -> RawObservations] : n \in 0..MaxRaw} \cup DuplicateTables

InitPivot ==
    /\ run = 1
    /\ pc = "pivot"
    /\ source \in RawTables
    /\ df = source
    /\ pivoted_df = EmptyTable
    /\ derived_df = EmptyTable
    /\ risk_df = EmptyTable
    /\ output_df = EmptyTable
    /\ historical = NoSink
    /\ current = NoSink
    /\ error = NoError
    /\ log = <<>>
    /\ outcome = [r \in 1..MaxRuns |-> IF r = 1 THEN "running" ELSE "none"]
    /\ response = NoResponse
    /\ health = NoResponse
    /\ query_job = NoJob
    /\ registries = RegistryKeys
    /\ ScriptsIdle

SpecPivot == InitPivot /\ [][Pivot]_vars

----------------------------------------------------------------------------
(* Claims about pivot_financial_data, over df and the reshaped pivoted_df *)

\* pivot_financial_data has run in the current run
Reshaped ==
    \/ pc \in {"derive", "validate", "score", "prepare", "write_historical",
               "write_current", "done"}
    \/ pc = "failed" /\ error.stage \notin {"credentials", "client", "fetch"}

\* The key starts with period_value_, ttm_avg_ or pttm_avg_
HasValueKindPrefix(k) ==
    \/ StartsWith(k, <<"period", "_", "value", "_">>)
    \/ StartsWith(k, <<"ttm", "_", "avg", "_">>)
    \/ StartsWith(k, <<"pttm", "_", "avg", "_">>)

\* The non-null values of kind k that the raw rows of (company c, period p,
\* metric m) carry
Observed(c, p, m, k) ==
    {KindValue(df[i], k) : i \in {j \in DOMAIN df :
        /\ df[j].company_name = c
        /\ df[j].time_period = p
        /\ df[j].metric_name = m}} \ {NaN}

\* The greatest of a non-empty set of finite numbers
Greatest(V) == CHOOSE v \in V : \A w \in V : ~Less(v, w)

\* C11: after pivot_financial_data, no cell of a column whose key starts with
\* period_value_, ttm_avg_ or pttm_avg_ holds zero.
C11_NoZeroInValueColumns ==
    \A r \in pivoted_df.rows : \A c \in pivoted_df.cols :
        HasValueKindPrefix(pivoted_df.key[c]) => r.cells[c] # Num(0)

\* C11 happens: the raw rows of a (company, period, metric) have the maximum
\* zero for a value kind, and the reshaped cell of that column is null.
C11_Witness ==
    /\ Reshaped
    /\ \E i \in DOMAIN df : \E k \in DOMAIN ValueKinds :
          LET c == df[i].company_name
              p == df[i].time_period
              m == df[i].metric_name
          IN  /\ Observed(c, p, m, k) # {}
              /\ Greatest(Observed(c, p, m, k)) = Num(0)
              /\ \E r \in pivoted_df.rows :
                    /\ r.company_name = c
                    /\ r.time_period = p
                    /\ HasValueKindPrefix(pivoted_df.key[LabelId(<<k, m>>)])
                    /\ IsNull(r.cells[LabelId(<<k, m>>)])

\* The raw rows of d in every order
Reorderings(d) ==
    {[i \in DOMAIN d |-> d[f[i]]] :
        f \in {g \in [DOMAIN d -> DOMAIN d] :
                 \A a, b \in DOMAIN d : g[a] = g[b] => a = b}}

\* Every reshaped cell is the maximum of the non-null values its raw rows
\* carry (null when there is none, or when that maximum is zero), and every
\* non-null raw value has its column
CollapsedToMax ==
    /\ \A r \in pivoted_df.rows : \A i \in DOMAIN df : \A k \in DOMAIN ValueKinds :
          LET m == df[i].metric_name
              V == Observed(r.company_name, r.time_period, m, k)
          IN  LabelId(<<k, m>>) \in pivoted_df.cols =>
                 r.cells[LabelId(<<k, m>>)] =
                    IF V = {} THEN NaN
                    ELSE IF Greatest(V) = Num(0) THEN NaN ELSE Greatest(V)
    /\ \A i \in DOMAIN df : \A k \in DOMAIN ValueKinds :
          ~IsNull(KindValue(df[i], k)) =>
              LabelId(<<k, df[i].metric_name>>) \in pivoted_df.cols

\* The reshaped table does not depend on the order of the raw rows
OrderIndependent == \A d \in Reorderings(df) : pivot_financial_data(d) = pivoted_df

\* No two reshaped rows have the same (company, period)
KeyedByCompanyAndPeriod ==
    \A r1, r2 \in pivoted_df.rows :
        (r1.company_name = r2.company_name /\ r1.time_period = r2.time_period)
            => r1 = r2

\* The (company, period) pairs of the reshaped rows
ReshapedPairs == {<<r.company_name, r.time_period>> : r \in pivoted_df.rows}

\* C12 as stated: duplicates collapse to the maximum of their non-null values
\* whatever the order of the rows, and the reshaped table has exactly one row
\* for each distinct (company, period) of the raw rows.
C12_OneRowPerRawPair ==
    Reshaped =>
        /\ CollapsedToMax
        /\ OrderIndependent
        /\ KeyedByCompanyAndPeriod
        /\ ReshapedPairs = {<<df[i].company_name, df[i].time_period>> : i \in DOMAIN df}

\* C12 amended: duplicates collapse to the maximum of their non-null values
\* whatever the order of the rows, and the reshaped table has exactly one row
\* for each distinct (company, period) that has a non-null raw value; a
\* (company, period) whose raw values are all null has no row.
C12_DuplicatesCollapseToMax ==
    Reshaped =>
        /\ CollapsedToMax
        /\ OrderIndependent
        /\ KeyedByCompanyAndPeriod
        /\ ReshapedPairs =
              {<<df[i].company_name, df[i].time_period>> :
                  i \in {j \in DOMAIN df : \E k \in DOMAIN ValueKinds :
                                              ~IsNull(KindValue(df[j], k))}}

\* C12 happens: two raw rows of the same (company, period, metric) carry the
\* period values 3 and then -2, and the reshaped cell is 3.
C12_Witness ==
    /\ Reshaped
    /\ \E i, j \in DOMAIN df :
          /\ i < j
          /\ df[i].company_name = df[j].company_name
          /\ df[i].time_period = df[j].time_period
          /\ df[i].metric_name = df[j].metric_name
          /\ df[i].period_value = Num(3)
          /\ df[j].period_value = Num(-2)
          /\ \E r \in pivoted_df.rows :
                /\ r.company_name = df[i].company_name
                /\ r.time_period = df[i].time_period
                /\ r.cells[LabelId(<<1, df[i].metric_name>>)] = Num(3)

\* The value kind a column key begins with
KindOfKey(key) ==
    CHOOSE k \in DOMAIN ValueKinds : StartsWith(key, ValueKinds[k] \o <<"_">>)

\* The column key without its value-kind prefix
MetricOfKey(key) == SubSeq(key, Len(ValueKinds[KindOfKey(key)]) + 2, Len(key))

\* value kind + '_' + metric name, lowercased, spaces replaced by underscores
StandardKey(k, m) == ValueKinds[k] \o <<"_">> \o ReplaceSpaces(Lower(m))

\* The reshaped table re-flattened: one (company, period, column key, value)
\* tuple per non-null cell
Reflattened ==
    UNION {{<<r.company_name, r.time_period, pivoted_df.key[c], r.cells[c]>> :
               c \in {x \in pivoted_df.cols : ~IsNull(r.cells[x])}}
           : r \in pivoted_df.rows}

\* The same tuples with the key split into value kind and metric name
ReflattenedByKindAndMetric ==
    {<<t[1], t[2], KindOfKey(t[3]), MetricOfKey(t[3]), t[4]>> : t \in Reflattened}

\* The (company, period, value kind, metric, value) tuples of the raw rows,
\* nulls left out
RawTuples ==
    UNION {{<<df[i].company_name, df[i].time_period, k, df[i].metric_name,
              KindValue(df[i], k)>> :
              k \in {h \in DOMAIN ValueKinds : ~IsNull(KindValue(df[i], h))}}
           : i \in DOMAIN df}

\* C13 as stated: re-flattening the reshaped table recovers the tuples of the
\* raw rows, except that those with the value zero come back as null.
C13_RoundTripRecoversRows ==
    Reshaped => ReflattenedByKindAndMetric = {t \in RawTuples : t[5] # Num(0)}

\* C13 amended: re-flattening the reshaped table yields, for every (company,
\* period, value kind, metric name) of the raw rows, the maximum of its
\* non-null values under the standardized column key, unless there is no such
\* value or that maximum is zero, and yields nothing else; zero never comes back.
C13_RoundTripRecoversMaxima ==
    Reshaped =>
        /\ Reflattened =
              {<<t[1], t[2], StandardKey(t[3], t[4]),
                 Greatest(Observed(t[1], t[2], t[4], t[3]))>> :
                  t \in {x \in RawTuples :
                           Greatest(Observed(x[1], x[2], x[4], x[3])) # Num(0)}}
        /\ \A t \in Reflattened : t[4] # Num(0)

\* C13 happens: a raw row with period value zero and trailing average 3 comes
\* back with its trailing average and without a period value.
C13_Witness ==
    /\ Reshaped
    /\ Len(df) = 1
    /\ df[1].period_value = Num(0)
    /\ df[1].ttm_avg = Num(3)
    /\ df[1].metric_name = <<"operating", " ", "income">>
    /\ <<df[1].company_name, df[1].time_period, ttm_avg(operating_income), Num(3)>>
          \in Reflattened
    /\ \A t \in Reflattened : t[3] # period_value(operating_income)

\* C14: every column of the reshaped table carries the key value kind + '_' +
\* metric name, lowercased with spaces replaced by underscores, and no two
\* columns carry the same key (metric names that differ only in case or in
\* space-versus-underscore share one column).
C14_OneColumnPerKey ==
    Reshaped =>
        /\ \A i \in DOMAIN df : \A k \in DOMAIN ValueKinds :
              LabelId(<<k, df[i].metric_name>>) \in pivoted_df.cols =>
                  pivoted_df.key[LabelId(<<k, df[i].metric_name>>)]
                      = StandardKey(k, df[i].metric_name)
        /\ \A c1, c2 \in pivoted_df.cols :
              pivoted_df.key[c1] = pivoted_df.key[c2] => c1 = c2

----------------------------------------------------------------------------
(* pivot, derive, validate and score on sources whose base values vary      *)
(* independently of one another                                             *)

\* The values a base column takes in the varied row: null, zero, both signs,
\* and twelve times the unit
BaseValues == {NaN, Num(0), Num(-3), Num(3), Num(36)}

\* The base columns read together: by one formula, or by one rule
ReadSets ==
    {Range(DERIVED_METRICS[i].reads) : i \in DOMAIN DERIVED_METRICS}
    \cup {Range(RequiredMetrics(RISK_FLAG_DEFINITIONS[i])) :
            i \in {j \in Rules : IsValueColumn(RISK_FLAG_DEFINITIONS[j].metric_name)}}

\* A source of one company and two periods: period 1 carries the assigned
\* values in the assigned columns, everything else is 3
DeriveSource(assign) ==
    LET val(key) == IF key \in DOMAIN assign THEN assign[key] ELSE Num(3)
    IN  [j \in DOMAIN MetricNames |->
            Observation("A", 1, MetricNames[j],
                        val(period_value(MetricNames[j])),
                        val(ttm_avg(MetricNames[j])),
                        val(pttm_avg(MetricNames[j])))]
        \o [j \in DOMAIN MetricNames |->
            Observation("A", 2, MetricNames[j], Num(3), Num(3), Num(3))]

DeriveSources ==
    {DeriveSource(a) : a \in UNION {[S -> BaseValues] : S \in ReadSets}}

InitDerive ==
    /\ run = 1
    /\ pc = "pivot"
    /\ source \in DeriveSources
    /\ df = source
    /\ pivoted_df = EmptyTable
    /\ derived_df = EmptyTable
    /\ risk_df = EmptyTable
    /\ output_df = EmptyTable
    /\ historical = NoSink
    /\ current = NoSink
    /\ error = NoError
    /\ log = <<>>
    /\ outcome = [r \in 1..MaxRuns |-> IF r = 1 THEN "running" ELSE "none"]
    /\ response = NoResponse
    /\ health = NoResponse
    /\ query_job = NoJob
    /\ registries = RegistryKeys
    /\ ScriptsIdle

NextDerive == Pivot \/ Derive \/ Validate \/ Score

SpecDerive == InitDerive /\ [][NextDerive]_vars

----------------------------------------------------------------------------
(* Claims about the formulas of DERIVED_METRICS, over derived_df and risk_df *)

\* calculate_derived_metrics has returned in the current run
Derived ==
    \/ pc \in {"validate", "score", "prepare", "write_historical", "write_current",
               "done"}
    \/ pc = "failed" /\ error.stage \in {"validate", "write_historical", "write_current"}

\* The derived metrics that are ratios
RatioMetrics ==
    {yoy_revenue_change, years_of_runway, ab_line_of_credit_as_percent_of_ttm_revenue,
     inventory_turns_ttm, modified_quick_ratio}

\* The denominator of the ratio metric n in row r of the derived table
Denominator(r, n) ==
    CASE n = yoy_revenue_change -> Cell(derived_df, r, pttm_avg(revenue))
      [] n = years_of_runway ->
            Mul(Cell(derived_df, r, ttm_avg(operating_income)), Num(12))
      [] n = ab_line_of_credit_as_percent_of_ttm_revenue ->
            Mul(Cell(derived_df, r, ttm_avg(revenue)), Num(12))
      [] n = inventory_turns_ttm -> Cell(derived_df, r, ttm_avg(inventory))
      [] n = modified_quick_ratio ->
            Add(Cell(derived_df, r, period_value(accounts_payable)),
                Cell(derived_df, r, period_value(credit_cards)))

\* C15: in every row of the derived table, a ratio metric whose denominator is
\* zero or null is null, no ratio metric is infinite, and
\* calculate_derived_metrics raises nothing but the KeyError of an absent column.
C15_GuardedDivision ==
    /\ Derived =>
          \A r \in derived_df.rows : \A n \in RatioMetrics :
              /\ (IsNull(Denominator(r, n)) \/ Denominator(r, n) = Num(0))
                    => IsNull(Cell(derived_df, r, n))
              /\ ~IsInf(Cell(derived_df, r, n))
    /\ (pc = "failed" /\ error.stage = "derive") =>
          (error.kind = "KeyError" /\ error.args[1] \notin Columns(pivoted_df))

\* C15 happens: accounts payable 3 and credit cards -3 sum to zero beside cash
\* and receivables of 3, and modified_quick_ratio is null.
C15_Witness ==
    /\ Derived
    /\ \E r \in derived_df.rows :
          /\ Cell(derived_df, r, period_value(accounts_payable)) = Num(3)
          /\ Cell(derived_df, r, period_value(credit_cards)) = Num(-3)
          /\ Cell(derived_df, r, period_value(cash)) = Num(3)
          /\ Cell(derived_df, r, period_value(accounts_receivable)) = Num(3)
          /\ Denominator(r, modified_quick_ratio) = Num(0)
          /\ IsNull(Cell(derived_df, r, modified_quick_ratio))

\* C16: in every row with non-null cash and non-null, non-zero trailing-average
\* operating income, years_of_runway is -1 when cash / (12 x operating income)
\* is positive and the negative of that ratio otherwise; and no scored row whose
\* operating income is non-negative has less_than_1_year_of_runway_flag = 1.
C16_RunwaySignRule ==
    /\ Derived =>
          \A r \in derived_df.rows :
              LET c == Cell(derived_df, r, period_value(cash))
                  o == Cell(derived_df, r, ttm_avg(operating_income))
                  ratio == Div(c, Mul(o, Num(12)))
              IN  (~IsNull(c) /\ ~IsNull(o) /\ o # Num(0)) =>
                      Cell(derived_df, r, years_of_runway)
                          = IF Less(Num(0), ratio) THEN Num(-1) ELSE Neg(ratio)
    /\ Scored =>
          \A r \in risk_df.rows :
              LET o == Cell(risk_df, r, ttm_avg(operating_income))
              IN  (~IsNull(o) /\ ~Less(o, Num(0))) =>
                      Cell(risk_df, r, less_than_1_year_of_runway_flag) # Num(1)

\* The values the source carries for the base column key in the (company,
\* period) of row r are all null or zero
NullInSource(r, key) ==
    Observed(r.company_name, r.time_period, MetricOfKey(key), KindOfKey(key))
        \subseteq {Num(0)}

\* C17: a derived metric is null in every row in which a base column its
\* formula reads is null, or was null or zero in the source; nothing is raised;
\* and every rule whose metric is null in a scored row has the flag -1 there.
C17_NullPropagates ==
    /\ Derived =>
          \A r \in derived_df.rows : \A i \in DOMAIN DERIVED_METRICS :
              \A key \in Range(DERIVED_METRICS[i].reads) :
                  /\ NullInSource(r, key) => IsNull(Cell(derived_df, r, key))
                  /\ IsNull(Cell(derived_df, r, key))
                        => IsNull(Cell(derived_df, r, DERIVED_METRICS[i].name))
    /\ Scored =>
          \A r \in risk_df.rows : \A i \in Rules :
              IsNull(Cell(risk_df, r, RISK_FLAG_DEFINITIONS[i].metric_name))
                  => Cell(risk_df, r, RISK_FLAG_DEFINITIONS[i].flag) = Num(-1)
    /\ (pc = "failed" /\ error.stage = "derive") =>
          \E i \in DOMAIN DERIVED_METRICS :
              ~(Range(DERIVED_METRICS[i].reads) \subseteq Columns(pivoted_df))

\* C17 happens: cash, accounts receivable, accounts payable and credit cards
\* are all zero in the source; modified_quick_ratio is null and
\* modified_quick_ratio_less_one_flag is -1 in the scored row.
C17_Witness ==
    /\ Scored
    /\ \E r \in risk_df.rows :
          /\ \A m \in {cash, accounts_receivable, accounts_payable, credit_cards} :
                Observed(r.company_name, r.time_period, m, 1) = {Num(0)}
          /\ IsNull(Cell(risk_df, r, modified_quick_ratio))
          /\ Cell(risk_df, r, U(<<"modified", "quick", "ratio", "less", "one", "flag">>))
                = Num(-1)

----------------------------------------------------------------------------
(* Claims about write_current_risk_ratings, over the sink table current *)

\* C18: the table written by write_current_risk_ratings holds exactly one row
\* for each company of the scored table, that row is the company's row of its
\* latest period, and no row of an earlier period is in it.
C18_LatestPeriodOnly ==
    pc = "done" =>
        /\ {x.company_name : x \in current.rows} = {r.company_name : r \in risk_df.rows}
        /\ \A x, y \in current.rows : x.company_name = y.company_name => x = y
        /\ \A x \in current.rows : \A r \in risk_df.rows :
              r.company_name = x.company_name => r.time_period <= x.time_period
        /\ \A x \in current.rows : \E r \in output_df.rows :
              /\ r.company_name = x.company_name
              /\ r.time_period = x.time_period
              /\ r.cells = x.cells

\* C18 happens: company A was scored for the periods 1 and 2, and the written
\* table holds its row of period 2 and none of period 1.
C18_Witness ==
    /\ pc = "done"
    /\ \E r1, r2 \in risk_df.rows :
          /\ r1.company_name = "A" /\ r1.time_period = 1
          /\ r2.company_name = "A" /\ r2.time_period = 2
    /\ \E x \in current.rows : x.company_name = "A" /\ x.time_period = 2
    /\ \A x \in current.rows : x.company_name = "A" => x.time_period # 1

\* The names, without the '_flag' suffix, of the rules whose flag is f in row x
RuleNamesWithFlag(x, f) ==
    {SubSeq(RISK_FLAG_DEFINITIONS[i].flag, 1, Len(RISK_FLAG_DEFINITIONS[i].flag) - 2) :
        i \in {j \in Rules :
                 Cell(output_df, x, RISK_FLAG_DEFINITIONS[j].flag) = Num(f)}}

\* C19: in every row of the written snapshot, risk_flags_flagged lists exactly
\* the rules whose flag is 1, or is 'no flags'; risk_flags_with_missing_
\* underlying_data lists exactly the rules whose flag is -1, or is 'no missing
\* data'; and risk_flags_flagged_num is the number of rules whose flag is 1.
C19_AggregatedFlagNames ==
    pc = "done" =>
        \A x \in current.rows :
            /\ x.risk_flags_flagged =
                  IF RuleNamesWithFlag(x, 1) = {} THEN {<<"no", " ", "flags">>}
                  ELSE RuleNamesWithFlag(x, 1)
            /\ x.risk_flags_with_missing_underlying_data =
                  IF RuleNamesWithFlag(x, -1) = {}
                  THEN {<<"no", " ", "missing", " ", "data">>}
                  ELSE RuleNamesWithFlag(x, -1)
            /\ x.risk_flags_flagged_num = Cardinality(RuleNamesWithFlag(x, 1))

\* C19 happens: a written row whose only triggered rule is
\* revenue_below_10_million and that has no missing data.
C19_Witness ==
    /\ pc = "done"
    /\ \E x \in current.rows :
          /\ x.risk_flags_flagged = {U(<<"revenue", "below", "10", "million">>)}
          /\ x.risk_flags_flagged_num = 1
          /\ x.risk_flags_with_missing_underlying_data
                = {<<"no", " ", "missing", " ", "data">>}

----------------------------------------------------------------------------
(* The Flask app: GET /health beside the runs started by POST /process *)

\* GET /health, answered at any moment
HealthCheck ==
    /\ health' = health_check
    /\ UNCHANGED <<run, pc, source, df, pivoted_df, derived_df, risk_df, output_df,
                   historical, current, error, log, outcome, response,
                   query_job, registries, scriptVars>>

\* Sources of a run that completes, of one stopped in calculate_derived_metrics
\* and of one stopped by the validation pass
ServerSources ==
    {SourceRows(SourcePairs(np, Len(Companies)),
                SelectSeq(MetricNames, LAMBDA m : m \notin omitted), 3) :
        np \in {n \in [DOMAIN Companies -> 0..MaxPeriods] :
                   \A c \in DOMAIN Companies : c > 1 => n[c] <= n[c - 1]},
        omitted \in {{}, {accounts_payable}, {cumulative_retained_earnings}}}

InitServer ==
    /\ run = 0
    /\ pc = "idle"
    /\ source \in ServerSources
    /\ df = <<>>
    /\ pivoted_df = EmptyTable
    /\ derived_df = EmptyTable
    /\ risk_df = EmptyTable
    /\ output_df = EmptyTable
    /\ historical = NoSink
    /\ current = NoSink
    /\ error = NoError
    /\ log = <<>>
    /\ outcome = [r \in 1..MaxRuns |-> "none"]
    /\ response = NoResponse
    /\ health = NoResponse
    /\ query_job = NoJob
    /\ registries = RegistryKeys
    /\ ScriptsIdle

NextServer == Next \/ HealthCheck

SpecServer == InitServer /\ [][NextServer]_vars

\* C20: /health has only ever answered healthy with code 200, and can answer
\* in every state; POST /process has no answer while its run is under way,
\* answers success with code 200 exactly when the run returned without error,
\* and answers status 'error' with the error's message and code 500 when the
\* run raised.
C20_HttpSurface ==
    /\ health \in {NoResponse, [status |-> "healthy", message |-> <<>>, code |-> 200]}
    /\ ENABLED HealthCheck
    /\ pc \notin {"done", "failed"} => response = NoResponse
    /\ pc = "done" =>
          /\ error.kind = "none"
          /\ response = [status |-> "success", message |-> <<>>, code |-> 200]
    /\ pc = "failed" =>
          /\ error.kind # "none"
          /\ response.status = "error"
          /\ response.code = 500
          /\ response.message = <<error.kind>> \o error.args
    /\ run >= 1 => (response.code = 200 <=> outcome[run] = "ok")

\* C20 happens: a run stopped by the validation pass was answered with code
\* 500 and the ValueError, and /health answered healthy.
C20_Witness ==
    /\ pc = "failed"
    /\ error.stage = "validate"
    /\ response.code = 500
    /\ response.status = "error"
    /\ response.message[1] = "ValueError"
    /\ health = [status |-> "healthy", message |-> <<>>, code |-> 200]

----------------------------------------------------------------------------
(* Repeated runs while the source table changes between them *)

\* The source tables a run can find: one or two companies, positive or negative
\* numbers
RerunSources ==
    {SourceRows(SourcePairs(np, Len(Companies)), MetricNames, v) :
        np \in {<<1, 0>>, <<2, 1>>}, v \in {-2, 3}}

\* The source table is rewritten by its owner between two runs
SourceUpdate ==
    /\ pc \in {"idle", "done", "failed"}
    /\ source' \in RerunSources \ {source}
    /\ UNCHANGED <<run, pc, df, pivoted_df, derived_df, risk_df, output_df,
                   historical, current, error, log, outcome, response, health,
                   query_job, registries, scriptVars>>

InitRerun ==
    /\ run = 0
    /\ pc = "idle"
    /\ source \in RerunSources
    /\ df = <<>>
    /\ pivoted_df = EmptyTable
    /\ derived_df = EmptyTable
    /\ risk_df = EmptyTable
    /\ output_df = EmptyTable
    /\ historical = NoSink
    /\ current = NoSink
    /\ error = NoError
    /\ log = <<>>
    /\ outcome = [r \in 1..MaxRuns |-> "none"]
    /\ response = NoResponse
    /\ health = NoResponse
    /\ query_job = NoJob
    /\ registries = RegistryKeys
    /\ ScriptsIdle

NextRerun == Next \/ SourceUpdate

SpecRerun == InitRerun /\ [][NextRerun]_vars

\* What one run over the fetched rows d hands to the two writers
RunOutput(d) ==
    LET scored == calculate_risk_ratings(calculate_derived_metrics(pivot_financial_data(d)).table)
    IN  prepare_output_data(scored, FlagColumns(scored))

\* C21: after a successful run, whatever the runs before it wrote, the
\* historical table holds exactly the rows this run computed from the rows it
\* fetched and the current table exactly their latest-period snapshot, each
\* once (the row count is the frame's); so the tables are a function of the
\* last run's source alone and a second run over the same source leaves them
\* as the first did.
C21_FullOverwrite ==
    pc = "done" =>
        LET out == RunOutput(df)
        IN  /\ historical = [written_by |-> run, rows |-> out.rows,
                             num_rows |-> Cardinality(out.rows)]
            /\ current = [written_by |-> run, rows |-> CurrentSnapshot(out),
                          num_rows |-> Cardinality(CurrentSnapshot(out))]

\* C21 happens: a second successful run, over a table that already held the
\* rows of a first successful run.
C21_Witness ==
    /\ pc = "done"
    /\ run = 2
    /\ outcome[1] = "ok"
    /\ historical.num_rows > 0
    /\ current.num_rows > 0

\* The columns the two written tables are compared on: the rating, the number
\* of rules with missing data and every rule's flag
ScoreColumns ==
    {risk_rating, num_flags_with_missing_underlying_data}
        \cup {RISK_FLAG_DEFINITIONS[i].flag : i \in Rules}

\* C26: after a successful run, every row of the current table has a row of
\* the historical table with the same company and period and the same
\* risk_rating, num_flags_with_missing_underlying_data and rule flags.
C26_SnapshotAgreesWithHistory ==
    pc = "done" =>
        \A x \in current.rows : \E h \in historical.rows :
            /\ h.company_name = x.company_name
            /\ h.time_period = x.time_period
            /\ \A c \in ScoreColumns :
                  /\ c \in Columns(output_df)
                  /\ Cell(output_df, h, c) = Cell(output_df, x, c)

\* C26 happens: a successful run wrote a snapshot row with a rating and a
\* triggered rule, over tables an earlier run had written to.
C26_Witness ==
    /\ pc = "done"
    /\ run = 2
    /\ historical.written_by = 2
    /\ \E x \in current.rows :
          /\ ~IsNull(Cell(output_df, x, risk_rating))
          /\ \E i \in Rules : Cell(output_df, x, RISK_FLAG_DEFINITIONS[i].flag) = Num(1)

----------------------------------------------------------------------------
(* The order of the stages *)

\* The positions of a run in process_risk_ratings, in the order of its statements
StageOrder ==
    <<"credentials", "client", "fetch", "pivot", "derive", "validate", "score",
      "prepare", "write_historical", "write_current", "done">>

StageIndex(p) == CHOOSE i \in DOMAIN StageOrder : StageOrder[i] = p

\* A run is at position p or beyond it, and has not failed
Reached(p) ==
    /\ pc \in Range(StageOrder)
    /\ StageIndex(pc) >= StageIndex(p)

\* A step of a run moves to the next position with no error, or ends the run in
\* an error; a new run begins only when none is under way
OrderedStep ==
    pc' # pc =>
        \/ /\ pc \in {"idle", "done", "failed"}
           /\ pc' = "credentials"
        \/ /\ pc \in Range(StageOrder) \ {"done"}
           /\ pc' = "failed"
           /\ error' # NoError
        \/ /\ pc \in Range(StageOrder) \ {"done"}
           /\ pc' = StageOrder[StageIndex(pc) + 1]
           /\ error = NoError
           /\ error' = NoError

\* What a run holds at each position: the results of exactly the stages before
\* it, a validated table from scoring on, and the historical table written by
\* this run before the current one is
StagesBefore ==
    /\ (df # <<>>) => (Reached("pivot") \/ pc = "failed")
    /\ (pivoted_df # EmptyTable) => (Reached("derive") \/ pc = "failed")
    /\ (derived_df # EmptyTable) => (Reached("validate") \/ pc = "failed")
    /\ (risk_df # EmptyTable) => (Reached("prepare") \/ pc = "failed")
    /\ (output_df # EmptyTable) => (Reached("write_historical") \/ pc = "failed")
    /\ (Reached("score") \/ risk_df # EmptyTable) =>
          confirm_availability_of_metrics_used_for_risk_ratings(derived_df) = <<>>
    /\ Reached("write_current") => historical.written_by = run
    /\ (run > 0 /\ current.written_by = run) =>
          (pc = "done" /\ historical.written_by = run)
    /\ (run > 0 /\ historical.written_by = run) =>
          (Reached("write_current") \/ (pc = "failed" /\ error.stage = "write_current"))

\* C23: the stages run in the order fetch, pivot, derive, validate, score,
\* prepare, write historical, write current; a stage starts only when every
\* earlier one completed without error; scoring never runs on a table that
\* failed validation; the historical table is written before the current one.
C23_StageOrder == [](StagesBefore) /\ [][OrderedStep]_vars

\* C23 happens: a run went through every stage and wrote both tables.
C23_Witness ==
    /\ pc = "done"
    /\ risk_df.rows # {}
    /\ historical.written_by = run
    /\ current.written_by = run

----------------------------------------------------------------------------
(* The zero rewrite and the collapse of duplicates *)

\* C27: the zero-to-null rewrite comes after the collapse of duplicates to their
\* maximum: a reshaped cell is null exactly when its raw rows carry no non-null
\* value or the greatest of them is zero; so duplicates holding a zero and a
\* positive number give that number, and duplicates holding a zero and only
\* negative numbers give null.
C27_ZeroRewriteAfterMax ==
    Reshaped =>
        \A r \in pivoted_df.rows : \A i \in DOMAIN df : \A k \in DOMAIN ValueKinds :
            LET V == Observed(r.company_name, r.time_period, df[i].metric_name, k)
                id == LabelId(<<k, df[i].metric_name>>)
            IN  id \in pivoted_df.cols =>
                  /\ IsNull(r.cells[id]) <=> (V = {} \/ Greatest(V) = Num(0))
                  /\ (Num(0) \in V /\ \E v \in V : Less(Num(0), v)) =>
                        (r.cells[id] \in V /\ Less(Num(0), r.cells[id]))
                  /\ (Num(0) \in V /\ \A v \in V : ~Less(Num(0), v)) =>
                        IsNull(r.cells[id])

\* C27 happens: the duplicates of one (company, period, metric) hold 0 and -2
\* as period value, and its reshaped cell is null; they hold 0 and 3 as
\* trailing average, and its reshaped cell is 3.
C27_Witness ==
    /\ Reshaped
    /\ Observed("A", 1, operating_income, 1) = {Num(0), Num(-2)}
    /\ Observed("A", 1, operating_income, 2) = {Num(0), Num(3)}
    /\ \E r \in pivoted_df.rows :
          /\ r.company_name = "A"
          /\ r.time_period = 1
          /\ IsNull(r.cells[LabelId(<<1, operating_income>>)])
          /\ r.cells[LabelId(<<2, operating_income>>)] = Num(3)

----------------------------------------------------------------------------
(* The registries are left as they were *)

\* C25: in every state, after any number of runs, failed ones included, the
\* keys of DERIVED_METRICS and of RISK_FLAG_DEFINITIONS are the ones the
\* process started with.
C25_RegistriesUnchanged ==
    /\ registries.DERIVED_METRICS =
          [i \in DOMAIN DERIVED_METRICS |-> DERIVED_METRICS[i].name]
    /\ registries.RISK_FLAG_DEFINITIONS =
          [i \in Rules |-> RISK_FLAG_DEFINITIONS[i].flag]

\* C25 happens: a second run has gone through calculate_derived_metrics and
\* prepare_output_data, the two functions that extend a list of the keys, after
\* a first run that did so as well.
C25_Witness ==
    /\ run = 2
    /\ outcome[1] = "ok"
    /\ pc = "done"
    /\ output_df.rows # {}

----------------------------------------------------------------------------
(* fetch_financial_data thread by thread: the main thread, the worker that
   polls the job in the executor, and the job at BigQuery *)

\* What fetch_financial_data raises after the failure: the except branch wraps
\* the message in ValueError("BigQuery query failed: ...")
FetchRaise(failure) ==
    /\ Raise([kind |-> "ValueError", stage |-> "fetch",
              args |-> <<"BigQuery query failed", failure>>],
             LogEntry("error", FetchErrorLog(failure)))
    /\ UNCHANGED df

\* The timeout answered by submitting the query again
MainTimeoutRetry ==
    /\ pc = "fetch"
    /\ query_job.main = "waiting"
    /\ query_job.worker = "polling"
    /\ query_job.submissions < 3
    /\ query_job' = [query_job EXCEPT !.submissions = @ + 1, !.state = "running"]
    /\ UNCHANGED <<run, pc, source, df, pivoted_df, derived_df, risk_df, output_df,
                   historical, current, error, log, outcome, response, health,
                   registries, scriptVars>>

\* query_job = client.query(query, job_config=job_config), then
\* executor.submit(check_query_status); client.query can raise
SubmitQuery ==
    /\ pc = "fetch"
    /\ query_job.main = "none"
    /\ \/ /\ query_job' = [query_job EXCEPT !.submissions = @ + 1,
                                             !.state = "running",
                                             !.main = "waiting",
                                             !.worker = "polling"]
          /\ UNCHANGED <<pc, df, error, log, outcome, response>>
       \/ \E failure \in {"Syntax error", "Not found", "Permission denied", "unknown"} :
             /\ FetchRaise(failure)
             /\ query_job' = [query_job EXCEPT !.submissions = @ + 1,
                                               !.raised = failure,
                                               !.main = "raised"]
    /\ UNCHANGED <<run, source, pivoted_df, derived_df, risk_df, output_df,
                   historical, current, health, registries, scriptVars>>

\* BigQuery ends the job, with or without errors (after a cancel as well)
JobFinishes ==
    /\ query_job.state = "running"
    /\ \E errors \in BOOLEAN :
          query_job' = [query_job EXCEPT !.state = "done", !.errors = errors]
    /\ UNCHANGED <<run, pc, source, df, pivoted_df, derived_df, risk_df, output_df,
                   historical, current, error, log, outcome, response, health,
                   registries, scriptVars>>

\* check_query_status: the loop is left when query_job.done(), and only then
WorkerReturns ==
    /\ query_job.worker = "polling"
    /\ query_job.state = "done"
    /\ query_job' = [query_job EXCEPT !.worker = "returned"]
    /\ UNCHANGED <<run, pc, source, df, pivoted_df, derived_df, risk_df, output_df,
                   historical, current, error, log, outcome, response, health,
                   registries, scriptVars>>

\* job = future.result(timeout=300) returns: job.errors raise, or the rows
\* are read with job.to_dataframe(), which can raise as well
MainResult ==
    /\ pc = "fetch"
    /\ query_job.main = "waiting"
    /\ query_job.worker = "returned"
    /\ IF query_job.errors
       THEN /\ FetchRaise("job_errors")
            /\ query_job' = [query_job EXCEPT !.raised = "job_errors", !.main = "raised"]
       ELSE \/ /\ df' = source
               /\ pc' = "pivot"
               /\ log' = IF source = <<>>
                         THEN Append(log, LogEntry("warning", "Query returned no results"))
                         ELSE log
               /\ query_job' = [query_job EXCEPT !.main = "returned"]
               /\ UNCHANGED <<error, outcome, response>>
            \/ /\ FetchRaise("unknown")
               /\ query_job' = [query_job EXCEPT !.raised = "unknown", !.main = "raised"]
    /\ UNCHANGED <<run, source, pivoted_df, derived_df, risk_df, output_df,
                   historical, current, health, registries, scriptVars>>

\* future.result(timeout=300) raises TimeoutError while the worker still
\* polls: the timeout is logged, query_job.cancel() is called, and the
\* TimeoutError leaves the with block, whose exit is
\* executor.shutdown(wait=True)
MainTimeout ==
    /\ pc = "fetch"
    /\ query_job.main = "waiting"
    /\ query_job.worker = "polling"
    /\ query_job' = [query_job EXCEPT !.cancelled = TRUE, !.main = "shutdown"]
    /\ log' = Append(log, LogEntry("error", "Query execution timed out after 5 minutes"))
    /\ UNCHANGED <<run, pc, source, df, pivoted_df, derived_df, risk_df, output_df,
                   historical, current, error, outcome, response, health,
                   registries, scriptVars>>

\* executor.shutdown(wait=True) returns once the worker has returned; the
\* TimeoutError then reaches the except branch
MainJoin ==
    /\ pc = "fetch"
    /\ query_job.main = "shutdown"
    /\ query_job.worker = "returned"
    /\ FetchRaise("timeout")
    /\ query_job' = [query_job EXCEPT !.raised = "timeout", !.main = "raised"]
    /\ UNCHANGED <<run, source, pivoted_df, derived_df, risk_df, output_df,
                   historical, current, health, registries, scriptVars>>

InitFetch ==
    /\ run = 0
    /\ pc = "idle"
    /\ source \in RerunSources
    /\ df = <<>>
    /\ pivoted_df = EmptyTable
    /\ derived_df = EmptyTable
    /\ risk_df = EmptyTable
    /\ output_df = EmptyTable
    /\ historical = NoSink
    /\ current = NoSink
    /\ error = NoError
    /\ log = <<>>
    /\ outcome = [r \in 1..MaxRuns |-> "none"]
    /\ response = NoResponse
    /\ health = NoResponse
    /\ query_job = NoJob
    /\ registries = RegistryKeys
    /\ ScriptsIdle

NextFetch ==
    \/ StartRun
    \/ GetCredentials
    \/ CreateClient
    \/ SubmitQuery
    \/ JobFinishes
    \/ WorkerReturns
    \/ MainResult
    \/ MainTimeout
    \/ MainJoin
    \/ Pivot
    \/ Derive
    \/ Validate
    \/ Score
    \/ PrepareOutput
    \/ WriteHistorical
    \/ WriteCurrent

SpecFetch == InitFetch /\ [][NextFetch]_vars

\* The steps of the main thread inside fetch_financial_data, one of which at
\* most is enabled
MainThread ==
    \/ SubmitQuery
    \/ MainResult
    \/ MainTimeout
    \/ MainJoin

\* The two threads of fetch_financial_data are scheduled and the timeout of
\* future.result elapses; nothing makes BigQuery end a job
FairSpecFetch ==
    /\ SpecFetch
    /\ WF_vars(MainThread)
    /\ WF_vars(WorkerReturns)

\* C22: a run submits the query at most once; whatever the source fails with,
\* the run ends in an error that carries the source's message, and no later
\* stage of that run has acted: no result beyond the fetch exists and neither
\* sink was written by the run.
C22_NoRetryAndSurfaced ==
    /\ query_job.submissions <= 1
    /\ (error.stage = "fetch") <=> (query_job.raised # "none")
    /\ query_job.raised # "none" =>
          /\ pc = "failed"
          /\ outcome[run] = "failed"
          /\ error.kind = "ValueError"
          /\ error.args = <<"BigQuery query failed", query_job.raised>>
          /\ df = <<>>
          /\ pivoted_df = EmptyTable
          /\ derived_df = EmptyTable
          /\ risk_df = EmptyTable
          /\ output_df = EmptyTable
          /\ historical.written_by # run
          /\ current.written_by # run

\* C22 happens: the query timed out, was cancelled and ended; the run failed
\* with the timeout's message after one submission.
C22_Witness ==
    /\ pc = "failed"
    /\ query_job.raised = "timeout"
    /\ query_job.cancelled
    /\ query_job.submissions = 1

\* C24: once the wait for the query has timed out, fetch_financial_data
\* returns to its caller by raising, also when the job never reports done
\* after the cancel.
C24_TimeoutTerminates ==
    (query_job.main = "shutdown") ~> (query_job.main = "raised")

----------------------------------------------------------------------------
(* The setup and cleanup scripts *)

\* The variables of the pipeline, which the scripts leave alone
pipelineVars ==
    <<run, pc, source, df, pivoted_df, derived_df, risk_df, output_df, historical,
      current, error, log, outcome, response, health, query_job, registries>>

\* Calls of the scripts one behaviour makes
MaxCalls == 2

\* A command the script ran, and whether it exited with status 0
Command(cmd, ok) == [cmd |-> cmd, ok |-> ok]

\* The commands that only read
ReadOnlyCommands == {"gcloud projects describe", "gcloud projects list"}

\* The flag passed over
DryRunIgnored(args) == FALSE

\* if args.dry_run:
IsDryRun(args) == args.dry_run

\* ContractorManifest.remove_environment, on the entry of the project
remove_environment(env) ==
    IF env.status # "absent" THEN Entry("deleted", env.notes, TRUE) ELSE env

\* The status left as it is
update_environment_status_ignored(env, status, notes) == env

\* ContractorManifest.update_environment_status, on the entry of the project
update_environment_status(env, status, notes) ==
    IF env.status # "absent"
    THEN Entry(status, IF notes THEN TRUE ELSE env.notes, env.cleanup_date)
    ELSE env

\* The step raised e: control goes to the except branch of cleanup_environment
Raised(step, e) ==
    [script EXCEPT !.pc = "handler", !.error = <<step, e>>,
                   !.steps = Append(@, step)]

\* cleanup_contractor_env.main(): the arguments are parsed, the project is
\* looked up with commands that only read, and the call returns early for
\* --list-projects, a project that is not found, --dry-run or an answer other
\* than yes; otherwise ContractorEnvironmentCleanup is constructed (the
\* manifest is loaded if it can be) and cleanup_environment is entered
CleanupMain ==
    /\ script.pc \in {"idle", "returned", "raised", "completed"}
    /\ script.calls < MaxCalls
    /\ \E route \in {"list", "not_found", "found"} :
       \E args \in [dry_run : BOOLEAN, skip_repo : BOOLEAN, skip_project : BOOLEAN,
                     confirm : BOOLEAN, manifest : BOOLEAN] :
          LET call == [NoCall EXCEPT !.name = "cleanup",
                                     !.calls = script.calls + 1,
                                     !.dry_run = args.dry_run,
                                     !.archive_repo = ~args.skip_repo,
                                     !.delete_project = ~args.skip_project,
                                     !.before = world]
          IN  /\ commands' =
                    IF route = "list" THEN <<Command("gcloud projects list", TRUE)>>
                    ELSE <<Command("gcloud projects describe", route = "found")>>
              /\ IF route # "found" \/ IsDryRun(args) \/ ~args.confirm
                 THEN /\ script' = [call EXCEPT !.pc = "returned"]
                      /\ environments' = NoEntry
                 ELSE /\ script' = [call EXCEPT !.pc = "archive",
                                                !.manifest = args.manifest,
                                                !.results.status = "in_progress"]
                      /\ environments' = IF args.manifest THEN world.manifest_file
                                         ELSE NoEntry
    /\ UNCHANGED <<world, pipelineVars>>

\* Step 1: _archive_github_repo, which catches CalledProcessError only
CleanupArchive ==
    /\ script.name = "cleanup"
    /\ script.pc = "archive"
    /\ IF ~script.archive_repo
       THEN /\ script' = [script EXCEPT !.pc = "delete"]
            /\ UNCHANGED <<world, commands>>
       ELSE \E out \in {"ok", "CalledProcessError", "TimeoutExpired"} :
              /\ out = "ok" => world.repo # "absent"
              /\ commands' = Append(commands, Command("gh repo archive", out = "ok"))
              /\ world' = IF out = "ok" THEN [world EXCEPT !.repo = "archived"] ELSE world
              /\ script' = IF out = "TimeoutExpired"
                           THEN Raised("archive", out)
                           ELSE [script EXCEPT !.pc = "delete",
                                               !.results.repo_archived = TRUE,
                                               !.steps = Append(@, "archive")]
    /\ UNCHANGED <<environments, pipelineVars>>

\* Step 2: _delete_gcp_project: describe (a CalledProcessError is taken as
\* "not found or already deleted"), then delete
CleanupDelete ==
    /\ script.name = "cleanup"
    /\ script.pc = "delete"
    /\ IF ~script.delete_project
       THEN /\ script' = [script EXCEPT !.pc = "local"]
            /\ UNCHANGED <<world, commands>>
       ELSE \E described \in {"ok", "CalledProcessError", "TimeoutExpired"} :
              /\ described = "ok" => world.project = "active"
              /\ CASE described = "TimeoutExpired" ->
                        /\ commands' = Append(commands,
                                              Command("gcloud projects describe", FALSE))
                        /\ script' = Raised("delete", described)
                        /\ UNCHANGED world
                   [] described = "CalledProcessError" ->
                        /\ commands' = Append(commands,
                                              Command("gcloud projects describe", FALSE))
                        /\ script' = [script EXCEPT !.pc = "local",
                                                    !.results.project_deleted = TRUE,
                                                    !.steps = Append(@, "delete")]
                        /\ UNCHANGED world
                   [] described = "ok" ->
                        \E deleted \in {"ok", "CalledProcessError", "TimeoutExpired"} :
                          /\ commands' = commands \o
                                <<Command("gcloud projects describe", TRUE),
                                  Command("gcloud projects delete", deleted = "ok")>>
                          /\ world' = IF deleted = "ok"
                                      THEN [world EXCEPT !.project = "absent"] ELSE world
                          /\ script' = IF deleted = "ok"
                                       THEN [script EXCEPT !.pc = "local",
                                                           !.results.project_deleted = TRUE,
                                                           !.steps = Append(@, "delete")]
                                       ELSE Raised("delete", deleted)
    /\ UNCHANGED <<environments, pipelineVars>>

\* Step 3: _cleanup_local_files: shutil.rmtree and os.remove, which can raise
CleanupLocal ==
    /\ script.name = "cleanup"
    /\ script.pc = "local"
    /\ \/ /\ world' = [world EXCEPT !.local_files = FALSE]
          /\ script' = [script EXCEPT !.pc = "manifest",
                                      !.results.local_files_cleaned = TRUE,
                                      !.steps = Append(@, "local")]
       \/ /\ world.local_files
          /\ script' = Raised("local", "OSError")
          /\ UNCHANGED world
    /\ UNCHANGED <<environments, commands, pipelineVars>>

\* Step 4: self.manifest.remove_environment(project_id), whose _save_manifest
\* can raise after the entry was changed in memory; then status 'completed'
CleanupManifest ==
    /\ script.name = "cleanup"
    /\ script.pc = "manifest"
    /\ IF ~script.manifest
       THEN /\ script' = [script EXCEPT !.pc = "completed",
                                        !.results.status = "completed"]
            /\ UNCHANGED <<world, environments>>
       ELSE /\ environments' = remove_environment(environments)
            /\ \E saved \in BOOLEAN :
                 IF saved \/ environments.status = "absent"
                 THEN /\ world' = [world EXCEPT !.manifest_file = environments']
                      /\ script' = [script EXCEPT !.pc = "completed",
                                                  !.results.manifest_updated = TRUE,
                                                  !.results.status = "completed",
                                                  !.steps = Append(@, "manifest")]
                 ELSE /\ script' = Raised("manifest", "save")
                      /\ UNCHANGED world
    /\ UNCHANGED <<commands, pipelineVars>>

\* except Exception as e: the results say failed, the manifest entry is set to
\* 'cleanup_failed' with a note if that can be done (an exception of the update
\* is passed over), and e is raised again
CleanupHandler ==
    /\ script.name = "cleanup"
    /\ script.pc = "handler"
    /\ IF ~script.manifest \/ environments.status = "absent"
       THEN /\ script' = [script EXCEPT !.pc = "raised",
                                        !.results.status = "failed",
                                        !.results.error = script.error,
                                        !.raised = script.error]
            /\ UNCHANGED <<world, environments>>
       ELSE /\ environments' = update_environment_status(environments, "cleanup_failed", TRUE)
            /\ \E saved \in BOOLEAN :
                 /\ world' = IF saved THEN [world EXCEPT !.manifest_file = environments']
                             ELSE world
                 /\ script' = [script EXCEPT !.pc = "raised",
                                             !.results.status = "failed",
                                             !.results.error = script.error,
                                             !.update_failed = ~saved,
                                             !.raised = script.error]
    /\ UNCHANGED <<commands, pipelineVars>>

\* setup_contractor_env.main(): the configuration is loaded (which can raise),
\* --dry-run logs and returns, and otherwise setup_environment creates the
\* temporary directory, the project with its service account and dataset, the
\* repository with its clone, and the instructions file, as far as it gets
SetupMain ==
    /\ script.pc \in {"idle", "returned", "raised", "completed"}
    /\ script.calls < MaxCalls
    /\ \E args \in [dry_run : BOOLEAN, config_ok : BOOLEAN] :
          LET call == [NoCall EXCEPT !.name = "setup",
                                     !.calls = script.calls + 1,
                                     !.dry_run = args.dry_run,
                                     !.before = world]
          IN  IF ~args.config_ok
              THEN /\ script' = [call EXCEPT !.pc = "raised",
                                             !.raised = <<"config", "FileNotFoundError">>]
                   /\ commands' = <<>>
                   /\ UNCHANGED world
              ELSE IF IsDryRun(args)
              THEN /\ script' = [call EXCEPT !.pc = "returned"]
                   /\ commands' = <<>>
                   /\ UNCHANGED world
              ELSE \E steps \in 0..3 :
                     /\ world' =
                          [world EXCEPT
                             !.project = IF steps >= 1 THEN "active" ELSE @,
                             !.repo = IF steps >= 2 /\ @ = "absent" THEN "active" ELSE @,
                             !.local_files = IF steps >= 2 THEN TRUE ELSE @]
                     /\ commands' =
                          SubSeq(<<Command("gcloud projects create", steps >= 1),
                                   Command("gh repo create", steps >= 2)>>,
                                 1, IF steps >= 1 THEN 2 ELSE 1)
                     /\ script' =
                          IF steps = 3 THEN [call EXCEPT !.pc = "completed"]
                          ELSE [call EXCEPT !.pc = "raised",
                                            !.raised = <<"setup", "CalledProcessError">>]
    /\ UNCHANGED <<environments, pipelineVars>>

\* The environments a script can find
Worlds ==
    [project : {"active", "absent"},
     repo : {"active", "archived", "absent"},
     local_files : BOOLEAN,
     manifest_file : {NoEntry, Entry("active", FALSE, FALSE),
                      Entry("deleted", FALSE, TRUE)}]

InitScripts ==
    /\ run = 0
    /\ pc = "idle"
    /\ source = <<>>
    /\ df = <<>>
    /\ pivoted_df = EmptyTable
    /\ derived_df = EmptyTable
    /\ risk_df = EmptyTable
    /\ output_df = EmptyTable
    /\ historical = NoSink
    /\ current = NoSink
    /\ error = NoError
    /\ log = <<>>
    /\ outcome = [r \in 1..MaxRuns |-> "none"]
    /\ response = NoResponse
    /\ health = NoResponse
    /\ query_job = NoJob
    /\ registries = RegistryKeys
    /\ world \in Worlds
    /\ script = NoCall
    /\ environments = NoEntry
    /\ commands = <<>>

NextScripts ==
    \/ CleanupMain
    \/ CleanupArchive
    \/ CleanupDelete
    \/ CleanupLocal
    \/ CleanupManifest
    \/ CleanupHandler
    \/ SetupMain

SpecScripts == InitScripts /\ [][NextScripts]_vars

\* The manifest file says 'deleted' and did not before the call
MarkedDeletedByCall ==
    /\ world.manifest_file.status = "deleted"
    /\ script.before.manifest_file.status # "deleted"

\* C28: cleanup_environment marks the manifest entry 'deleted', or returns
\* status 'completed', only if the deletion of the project was requested and
\* the project is gone; results['repo_archived'] is true only if the archive
\* command succeeded, and results['project_deleted'] only if the delete command
\* succeeded or the project is absent.
C28_DeletedOnlyIfProjectGone ==
    script.name = "cleanup" =>
        /\ (MarkedDeletedByCall \/ script.results.status = "completed") =>
              (script.delete_project /\ world.project = "absent")
        /\ script.results.repo_archived =>
              Command("gh repo archive", TRUE) \in Range(commands)
        /\ script.results.project_deleted =>
              \/ Command("gcloud projects delete", TRUE) \in Range(commands)
              \/ world.project = "absent"

\* The steps of cleanup_environment in their order
CleanupSteps == <<"archive", "delete", "local", "manifest">>

StepIndex(step) == CHOOSE i \in DOMAIN CleanupSteps : CleanupSteps[i] = step

\* C29: when a step of cleanup_environment raised, it is the last step that
\* ran and the steps before it ran in order; nothing a later step does has
\* happened; once the call has raised, the error raised is that step's, the
\* manifest entry, if the manifest has one, has status 'cleanup_failed' and a
\* note (in the file as well unless the update itself failed, and then the
\* file is as it was), and the file was not marked 'deleted' by the call.
C29_FailureStopsAndIsRecorded ==
    (script.name = "cleanup" /\ script.error # <<>>) =>
        /\ script.pc \in {"handler", "raised"}
        /\ script.steps # <<>>
        /\ script.steps[Len(script.steps)] = script.error[1]
        /\ \A i, j \in DOMAIN script.steps :
              i < j => StepIndex(script.steps[i]) < StepIndex(script.steps[j])
        /\ StepIndex(script.error[1]) <= 1 =>
              (world.project = script.before.project /\ ~script.results.project_deleted)
        /\ StepIndex(script.error[1]) <= 2 =>
              (world.local_files = script.before.local_files
                 /\ ~script.results.local_files_cleaned)
        /\ ~script.results.manifest_updated
        /\ script.results.status # "completed"
        /\ ~MarkedDeletedByCall
        /\ script.pc = "raised" =>
              /\ script.raised = script.error
              /\ script.results.status = "failed"
              /\ (script.manifest /\ script.before.manifest_file.status # "absent") =>
                    /\ environments.status = "cleanup_failed"
                    /\ environments.notes
                    /\ ~script.update_failed => world.manifest_file = environments
                    /\ script.update_failed =>
                          world.manifest_file = script.before.manifest_file

\* C29 happens: saving the manifest in the last step raised after the entry
\* was set to 'deleted' in memory; the call raised that error and the file
\* says 'cleanup_failed'.
C29_Witness ==
    /\ script.name = "cleanup"
    /\ script.pc = "raised"
    /\ script.error = <<"manifest", "save">>
    /\ script.steps = CleanupSteps
    /\ script.before.manifest_file.status = "active"
    /\ world.manifest_file.status = "cleanup_failed"
    /\ world.manifest_file.notes

====
